---- MODULE Spec2Model ----
(***************************************************************************)
(* Model of the netbox-sdn-controller reconciliation engine:               *)
(*   sdnmanager/sdn_manager.py  (SdnManager)                               *)
(*   tasks.py                   (NetworkControllerFetch, ImportDataInNetBox,*)
(*                               FetchAndSync)                             *)
(*   models.py, utils.py        (stack index, interface validity, ...)     *)
(*                                                                         *)
(* Encoding of Python values                                               *)
(*   None / ""            the string "none" (None)                         *)
(*   a hostname or name   a sequence of tokens joined by "-":              *)
(*                        <<"st","1">> is "st-1".  No token is a substring *)
(*                        of another, so substring tests are tests on      *)
(*                        contiguous token runs.  Hostnames of the catalog *)
(*                        hold no ".", so hostname.split(".")[0] keeps     *)
(*                        them whole.                                      *)
(*   "a,b" serial lists   the sequence <<"a","b">> of the split parts      *)
(*   "1,2" index strings  the sequence <<1,2>>; "" is <<>>                 *)
(*   an interface name    [t |-> type prefix, nums |-> the "/"-separated   *)
(*                        numbers]                                         *)
(*   an address string    [host |-> h, len |-> n]; len 0 is "no /mask"     *)
(*   a dict               the set of its <<key, value>> pairs, or, where   *)
(*                        the order of the keys counts, the sequence of    *)
(*                        its values                                       *)
(*   a table row id (pk)  the index of the row in its sequence; 0 is "no   *)
(*                        row" (a null foreign key, an empty .first())     *)
(***************************************************************************)
EXTENDS Integers, Sequences, FiniteSets, TLC

None == "none"

DISCOVERED == "discovered"
IMPORTED   == "imported"
DELETED    == "deleted"

(***************************************************************************)
(* Bounds of the model.                                                    *)
(***************************************************************************)
MaxJobs  == 3      \* jobs started in one behaviour
MaxEdits == 1      \* operator edits in one behaviour

(***************************************************************************)
(* Generic helpers.                                                        *)
(***************************************************************************)
Range(s) == {s[i] : i \in DOMAIN s}

SeqOfSet(S) == CHOOSE s \in [1..Cardinality(S) -> S] : Range(s) = S

\* a[i..] is one run of b: "a in b" on "-"-joined names
RunAt(a, b, k) == \A i \in 1..Len(a) : b[k + i - 1] = a[i]
Contains(b, a) == \E k \in 1..(Len(b) - Len(a) + 1) : RunAt(a, b, k)

\* alphabetical rank of the name tokens used by the catalog
TokRank(t) ==
  CASE t = "1" -> 1 [] t = "2" -> 2 [] t = "ns" -> 3 [] t = "rt" -> 4
    [] t = "st" -> 5 [] t = "sw" -> 6 [] OTHER -> 7

RECURSIVE NameLess(_, _)
NameLess(a, b) ==
  IF a = <<>> THEN b # <<>>
  ELSE IF b = <<>> THEN FALSE
  ELSE IF Head(a) # Head(b) THEN TokRank(Head(a)) < TokRank(Head(b))
  ELSE NameLess(Tail(a), Tail(b))

(***************************************************************************)
(* utils.py                                                                *)
(***************************************************************************)
RECURSIVE BitCount(_)
BitCount(n) == IF n = 0 THEN 0 ELSE (n % 2) + BitCount(n \div 2)

\* mask_to_cidr: the number of set bits of the four octets ("/<n>")
mask_to_cidr(ipv4_mask) ==
  BitCount(ipv4_mask[1]) + BitCount(ipv4_mask[2]) +
  BitCount(ipv4_mask[3]) + BitCount(ipv4_mask[4])

\* is_valid_interface: re.search(r'\D+(\d+)/(\d+)', name)
is_valid_interface(name) ==
  IF name.t = "AppGigabitEthernet" THEN FALSE
  ELSE IF Len(name.nums) >= 2
       THEN IF name.nums[1] = 0 THEN TRUE ELSE name.nums[2] = 0
       ELSE TRUE

(***************************************************************************)
(* The NetBox catalog the engine reads and never writes: tenants, sites,   *)
(* device types with their interface templates, prefixes scoped to sites.  *)
(***************************************************************************)
Controllers == {"c1", "c2"}

\* SdnController.default_tenant
default_tenant(c) == IF c = "c1" THEN "ten1" ELSE None

\* DeviceType.objects.filter(model=...) / filter(part_number=...)
DeviceTypeOf(platformId) == IF platformId \in {"dt1", "dt2"} THEN platformId ELSE None

\* InterfaceTemplate rows of a device type; chassis stands for "{chassis}"
InterfaceTemplates(dt, chassis) ==
  IF dt = "dt2" THEN {[t |-> "GigabitEthernet", nums |-> <<chassis, 0, 2>>]} ELSE {}

\* get_site_from_prefix: the site scoping a prefix that contains the address
get_site_from_prefix(host) == IF host = "ip1" THEN "site1" ELSE None

(***************************************************************************)
(* What the controller can report.                                         *)
(***************************************************************************)
Gi(a, b, c) == [t |-> "GigabitEthernet", nums |-> <<a, b, c>>]
M24 == <<255, 255, 255, 0>>

RawIf(n, ip) ==
  [portName |-> n, interfaceType |-> "Physical", ipv4Address |-> ip,
   ipv4Mask |-> IF ip = None THEN <<>> ELSE M24]

\* a single switch of a model the catalog has no device type for
RawSw ==
  [id |-> "u1", type |-> "Cisco Catalyst 9300", hostname |-> <<"sw">>,
   serialNumber |-> <<"s1">>, platformId |-> <<"dt9">>,
   managementIpAddress |-> "ip1", role |-> "ACCESS",
   stackSwitchInfo |-> <<>>, chassis |-> <<>>,
   interfaces |-> <<RawIf(Gi(1, 0, 1), "ip1")>>]

\* a stack of two members
RawSt ==
  [id |-> "u2", type |-> "Cisco Catalyst 9300", hostname |-> <<"st">>,
   serialNumber |-> <<"s2", "s3">>, platformId |-> <<"dt1", "dt2">>,
   managementIpAddress |-> "ip2", role |-> "ACCESS",
   stackSwitchInfo |-> <<[serialNumber |-> "s2", stackMemberNumber |-> 1],
                         [serialNumber |-> "s3", stackMemberNumber |-> 2]>>,
   chassis |-> <<>>,
   interfaces |-> <<RawIf(Gi(1, 0, 1), "ip2"), RawIf(Gi(2, 0, 1), None)>>]

\* the same stack after its second member was removed
RawSt1 ==
  [RawSt EXCEPT !.serialNumber = <<"s2">>, !.platformId = <<"dt1">>,
                !.stackSwitchInfo = <<>>,
                !.interfaces = <<RawIf(Gi(1, 0, 1), "ip2")>>]

\* a router of the second controller, with no management address
RawRt ==
  [id |-> "u3", type |-> "Cisco ISR", hostname |-> <<"rt">>,
   serialNumber |-> <<"s4">>, platformId |-> <<"dt1">>,
   managementIpAddress |-> None, role |-> "BORDER ROUTER",
   stackSwitchInfo |-> <<>>, chassis |-> <<>>,
   interfaces |-> <<RawIf(Gi(0, 0, 1), None)>>]

\* a chassis of two members that reports no serial number
RawNs ==
  [id |-> "u4", type |-> "Cisco Catalyst 9400", hostname |-> <<"ns">>,
   serialNumber |-> <<>>, platformId |-> <<"dt1">>,
   managementIpAddress |-> None, role |-> "ACCESS",
   stackSwitchInfo |-> <<>>,
   chassis |-> <<[serialNumber |-> None, index |-> 1],
                 [serialNumber |-> None, index |-> 2]>>,
   interfaces |-> <<RawIf(Gi(1, 0, 1), None)>>]

\* the device lists get_device_list can answer with, per controller
Reports(c) ==
  IF c = "c1" THEN {<<RawSw>>, <<RawSt>>, <<RawSt1>>, <<RawSw, RawSt>>}
  ELSE {<<RawRt>>, <<RawNs>>}

(***************************************************************************)
(* State.                                                                  *)
(*   protos   table SdnControllerDevicePrototype                           *)
(*   devices  table dcim.Device                                            *)
(*   ifaces   table dcim.Interface (device = 0: the row was deleted)       *)
(*   ips      table ipam.IPAddress                                         *)
(*   pc       position of the running job ("idle": no job runs)            *)
(*   mgr      the running job's SdnManager and the locals of its loops     *)
(*   jobs, edits   jobs started / operator edits made so far               *)
(*   pager    one call of offset_handler: its locals and the requests made *)
(*   splitter one call of split_device_list: its input and its result      *)
(*   merger   one merge of reported attributes into an inventory object    *)
(*   remap    one call of remap_interfaces: the interfaces of the device   *)
(*   bays     one call of process_module_bays: the module bays of the device*)
(*   subs     the sub-objects of one prototype under import, and the script's log*)
(*   addr     one call of process_ip_addresses: its arguments              *)
(*   ctrl     the SdnController row, the job queue and the worker that runs a job*)
(***************************************************************************)
VARIABLES protos, devices, ifaces, ips, pc, mgr, jobs, edits, pager, splitter,
          merger,
          remap,
          bays,
          subs,
          addr,
          ctrl

vars == <<protos, devices, ifaces, ips, pc, mgr, jobs, edits, pager, splitter,
          merger,
          remap,
          bays,
          subs,
          addr,
          ctrl>>

NoAddr == [host |-> None, len |-> 0]
NoName == [t |-> None, nums |-> <<>>]

Ids(table) == DOMAIN table

(***************************************************************************)
(* Query helpers: QuerySet.first() under each model's Meta.ordering.       *)
(***************************************************************************)
\* Device: ordering (name, pk)
FirstDeviceIn(devs, S) ==
  IF S = {} THEN 0
  ELSE CHOOSE i \in S : \A j \in S :
         \/ NameLess(devs[i].name, devs[j].name)
         \/ devs[i].name = devs[j].name /\ i <= j

\* IPAddress: ordering (address, pk)
HostRank(h) == CASE h = "ip1" -> 1 [] h = "ip2" -> 2 [] OTHER -> 3

AddrBefore(a, b) ==
  \/ HostRank(a.host) < HostRank(b.host)
  \/ a.host = b.host /\ a.len < b.len

FirstIpIn(tbl, S) ==
  IF S = {} THEN 0
  ELSE CHOOSE i \in S : \A j \in S :
         \/ AddrBefore(tbl[i].address, tbl[j].address)
         \/ tbl[i].address = tbl[j].address /\ i <= j

\* address__istartswith=<text>: "h" starts "h/24"; "h/24" starts only "h/24"
StartsWith(address, text) ==
  address.host = text.host /\ (text.len = 0 \/ text.len = address.len)

(***************************************************************************)
(* SdnManager.split_device_list                                            *)
(***************************************************************************)
\* str(n) for the unit ranks of the catalog
NumTok(n) == CASE n = 1 -> "1" [] n = 2 -> "2" [] n = 3 -> "3"

Max2(a, b) == IF a >= b THEN a ELSE b

\* "nexus" in prototype_device.type.lower()
IsNexus(type) == type = "Cisco Nexus 9000"

\* get_chassis_index: serial -> rank, from the stack members, else the chassis
get_chassis_index(d) ==
  IF d.stackSwitchInfo = <<>>
  THEN [s \in {d.chassis[i].serialNumber : i \in DOMAIN d.chassis} |->
          LET i == CHOOSE j \in DOMAIN d.chassis :
                     /\ d.chassis[j].serialNumber = s
                     /\ \A k \in DOMAIN d.chassis :
                          d.chassis[k].serialNumber = s => k <= j
          IN d.chassis[i].index]
  ELSE [s \in {d.stackSwitchInfo[i].serialNumber : i \in DOMAIN d.stackSwitchInfo} |->
          LET i == CHOOSE j \in DOMAIN d.stackSwitchInfo :
                     /\ d.stackSwitchInfo[j].serialNumber = s
                     /\ \A k \in DOMAIN d.stackSwitchInfo :
                          d.stackSwitchInfo[k].serialNumber = s => k <= j
          IN d.stackSwitchInfo[i].stackMemberNumber]

\* no_serial_indexes: 1 .. max(stack length, chassis length, 1)
no_serial_indexes(d) ==
  1 .. Max2(Max2(Len(d.stackSwitchInfo), Len(d.chassis)), 1)

\* a copy that keeps the management address whatever its rank
SerialUnitKeepsAddress(d, k) ==
  LET serials       == d.serialNumber
      chassis_index == get_chassis_index(d)
      stack_number  == chassis_index[serials[k]]
  IN [id |-> d.id,
      hostname |-> Append(d.hostname, NumTok(stack_number)),
      serialNumber |-> serials[k],
      platformId |-> d.platformId[k],
      managementIpAddress |-> d.managementIpAddress,
      role |-> d.role,
      rank |-> stack_number,
      total_serial |-> Len(serials),
      is_multiple |-> Len(serials) > 1,
      stack_info |-> {<<s, chassis_index[s]>> : s \in DOMAIN chassis_index}]

\* the copy made for the k-th serial of the list (lines 1303-1330)
SerialUnit(d, k) ==
  LET serials       == d.serialNumber
      chassis_index == IF Len(serials) > 1 THEN get_chassis_index(d)
                       ELSE [s \in {serials[1]} |-> 1]
      stack_number  == chassis_index[serials[k]]
  IN [id |-> d.id,
      hostname |-> IF Len(serials) > 1
                   THEN Append(d.hostname, NumTok(stack_number)) ELSE d.hostname,
      serialNumber |-> serials[k],
      platformId |-> d.platformId[k],
      managementIpAddress |-> IF stack_number > 1 THEN None
                              ELSE d.managementIpAddress,
      role |-> d.role,
      rank |-> stack_number,
      total_serial |-> Len(serials),
      is_multiple |-> Len(serials) > 1,
      stack_info |-> {<<s, chassis_index[s]>> : s \in DOMAIN chassis_index}]

\* the copy made for a unit of a device that reports no serial (lines 1331-1344)
NoSerialUnit(d, switch_index) ==
  LET n == Cardinality(no_serial_indexes(d))
  IN [id |-> d.id,
      hostname |-> IF n > 1 THEN Append(d.hostname, NumTok(switch_index))
                   ELSE d.hostname,
      serialNumber |-> None,
      platformId |-> IF Len(d.platformId) = 1 THEN d.platformId[1] ELSE "list",
      managementIpAddress |-> IF switch_index > 1 THEN None
                              ELSE d.managementIpAddress,
      role |-> d.role,
      rank |-> IF n > 1 THEN switch_index ELSE 1,
      total_serial |-> IF n > 1 THEN n ELSE 1,
      is_multiple |-> n > 1,
      stack_info |-> {}]

\* the units of one raw device; uuid_list is prototype_uuid_list
SplitOne(d, uuid_list) ==
  IF IsNexus(d.type) THEN <<>>
  ELSE IF uuid_list # {} /\ d.id \notin uuid_list THEN <<>>
  ELSE IF d.serialNumber # <<>>
       THEN [k \in 1..Len(d.serialNumber) |-> SerialUnit(d, k)]
       ELSE [k \in 1..Cardinality(no_serial_indexes(d)) |-> NoSerialUnit(d, k)]

RECURSIVE split_device_list(_, _)
split_device_list(device_list, uuid_list) ==
  IF device_list = <<>> THEN <<>>
  ELSE SplitOne(Head(device_list), uuid_list)
         \o split_device_list(Tail(device_list), uuid_list)

(***************************************************************************)
(* SdnManager.sync_sdn_controller_devices: the per-unit controller data    *)
(***************************************************************************)
\* extract_interface_number: the number before the first "/", -1 for None
extract_interface_number(name) ==
  IF Len(name.nums) >= 2 THEN name.nums[1] ELSE -1

should_include_interface(interface, rank) ==
  LET interface_number == extract_interface_number(interface.portName)
  IN IF interface.portName.t = "AppGigabitEthernet" THEN FALSE
     ELSE IF rank = 1 THEN interface_number < 2
     ELSE IF interface_number <= 0 THEN FALSE
     ELSE interface_number = rank

RECURSIVE FilterSeq(_, _)
FilterSeq(s, rank) ==
  IF s = <<>> THEN <<>>
  ELSE IF should_include_interface(Head(s), rank)
       THEN <<Head(s)>> \o FilterSeq(Tail(s), rank)
       ELSE FilterSeq(Tail(s), rank)

\* filtered_interfaces[ipv4]: the first interface with the address, replaced by
\* every later "Physical" one (lines 320-327)
AddressOwner(interfaces, ipv4) ==
  LET cand == {i \in DOMAIN interfaces : interfaces[i].ipv4Address = ipv4}
      phys == {i \in cand : interfaces[i].interfaceType = "Physical"}
      first == CHOOSE i \in cand : \A j \in cand : i <= j
      later == {i \in phys : i > first}
  IN IF later = {} THEN first
     ELSE CHOOSE i \in later : \A j \in later : j <= i

\* lines 330-335: an address stays on its owner only
DedupAddresses(interfaces) ==
  [i \in DOMAIN interfaces |->
     IF interfaces[i].ipv4Address = None THEN interfaces[i]
     ELSE IF interfaces[AddressOwner(interfaces, interfaces[i].ipv4Address)]
               = interfaces[i]
          THEN interfaces[i]
          ELSE [interfaces[i] EXCEPT !.ipv4Address = None]]

\* lines 337-338: the mask of managementIpAddressInterface, <<>> when there is none
ManagementMask(interfaces, managementIpAddress) ==
  LET hit == {i \in DOMAIN interfaces :
                /\ interfaces[i].ipv4Address # None
                /\ interfaces[i].ipv4Address = managementIpAddress}
  IN IF hit = {} THEN <<>>
     ELSE interfaces[CHOOSE i \in hit : \A j \in hit : j <= i].ipv4Mask

RECURSIVE DictOf(_, _)
\* element_list_to_dict(.., 'portName'): keys in insertion order, last value kept
DictOf(list, acc) ==
  IF list = <<>> THEN acc
  ELSE LET e   == Head(list)
           hit == {i \in DOMAIN acc : acc[i].portName = e.portName}
       IN DictOf(Tail(list),
                 IF hit = {} THEN Append(acc, e)
                 ELSE [acc EXCEPT ![CHOOSE i \in hit : TRUE] = e])

element_list_to_dict(list) == DictOf(list, <<>>)

\* the unit as process_prototype receives it (lines 243-345); raw is the raw
\* device whose id the per-unit queries name
LoadUnit(u, raw) ==
  LET fetched    == raw.interfaces
      interfaces == DedupAddresses(IF u.is_multiple THEN FilterSeq(fetched, u.rank)
                                   ELSE fetched)
  IN [unit |-> u,
      interfaces |-> element_list_to_dict(interfaces),
      managementMask |-> ManagementMask(interfaces, u.managementIpAddress)]

(***************************************************************************)
(* The per-unit queries of one turn of the loop (lines 240-314) when the   *)
(* controller does not answer one of them.  A fault names the query and    *)
(* what it raised: "404" an ApiError whose text holds "404", "api" any     *)
(* other ApiError, "other" an exception that is not an ApiError.           *)
(***************************************************************************)
NoFault == [query |-> "none", kind |-> "none"]

Queries == {"modules", "interfaces", "vlans"}

Faults == {[query |-> q, kind |-> k] : q \in Queries, k \in {"404", "api", "other"}}

\* the locals modules, interfaces and vlans of sync_sdn_controller_devices
\* outlive a turn of its loop: bound tells that a turn has assigned them,
\* interfaces is the list the last turn left (the catalog has no module and no
\* VLAN, so the two other lists are empty whenever they are bound)
NoLocals == [bound |-> FALSE, interfaces |-> <<>>]

\* lines 240-314: what the try statement leaves in `interfaces`, and whether
\* the turn ends in an exception that leaves the loop: one that is not an
\* ApiError, or the NameError of lines 317-340 on a local no turn has assigned
TurnQueries(u, raw, fault, locals) ==
  LET fetched == IF u.is_multiple THEN FilterSeq(raw.interfaces, u.rank)
                 ELSE raw.interfaces
  IN [raised |->
        \/ fault.kind = "other"
        \/ /\ ~locals.bound
           /\ \/ fault.kind = "api"
              \/ fault.kind = "404" /\ fault.query = "modules",
      interfaces |->
        IF fault.kind = "none" THEN fetched
        ELSE IF fault.kind = "404" THEN <<>>
        ELSE IF fault.query = "vlans" THEN fetched
        ELSE locals.interfaces]

\* lines 317-345 on the list the try statement left
LoadFrom(u, list) ==
  [unit |-> u,
   interfaces |-> element_list_to_dict(DedupAddresses(list)),
   managementMask |-> ManagementMask(DedupAddresses(list), u.managementIpAddress)]

(***************************************************************************)
(* SdnControllerDevicePrototype: Meta.ordering (instance_uuid, stack_index),*)
(* rows that tie come in pk order.                                         *)
(***************************************************************************)
UuidRank(u) ==
  CASE u = "u1" -> 1 [] u = "u2" -> 2 [] u = "u3" -> 3 [] u = "u4" -> 4 [] OTHER -> 5

ProtoBefore(tbl, i, j) ==
  \/ UuidRank(tbl[i].instance_uuid) < UuidRank(tbl[j].instance_uuid)
  \/ /\ tbl[i].instance_uuid = tbl[j].instance_uuid
     /\ \/ tbl[i].stack_index[1] < tbl[j].stack_index[1]
        \/ tbl[i].stack_index = tbl[j].stack_index /\ i <= j

FirstProtoIn(tbl, S) ==
  IF S = {} THEN 0 ELSE CHOOSE i \in S : \A j \in S : ProtoBefore(tbl, i, j)

RECURSIVE OrderedProtos(_, _)
\* the pks of S as the QuerySet iterates them
OrderedProtos(tbl, S) ==
  IF S = {} THEN <<>>
  ELSE LET i == FirstProtoIn(tbl, S)
       IN <<i>> \o OrderedProtos(tbl, S \ {i})

\* SdnControllerDevicePrototype.virtual_chassis
virtual_chassis(proto) == Cardinality(proto.stack_info) > 1

(***************************************************************************)
(* SdnManager.process_prototype                                            *)
(* db is [protos, devices, ips]; c the manager's controller; p the unit    *)
(* with its interfaces (LoadUnit).  The result is the tables after the     *)
(* call and pid, the pk of the record it saved.                            *)
(***************************************************************************)
Last(s) == s[Len(s)]

\* name[-2:] == "-1"
EndsWithDash1(name) == Len(name) >= 2 /\ Last(name) = "1"

\* IPAddress.address as stored: an address given without "/n" becomes a /32
StoredAddress(a) == IF a.len = 0 THEN [a EXCEPT !.len = 32] ELSE a

\* the list of line 550 without "site"
UpsertExcludedWithoutSite == {"id", "device_type", "primary_ip4", "tenant", "role"}

\* the fields the update of an existing record leaves alone (line 550)
UpsertExcluded == {"id", "device_type", "primary_ip4", "site", "tenant", "role"}

\* lines 548-551: every field of the candidate but the excluded ones is copied
CopyFields(existing, candidate) ==
  [f \in DOMAIN candidate |->
     IF f \in UpsertExcluded THEN existing[f] ELSE candidate[f]]

\* the lookup of lines 538-541 if an absent serial were compared with "=",
\* which no row satisfies
ExistingPrototypeSqlEquals(tbl, candidate) ==
  FirstProtoIn(tbl, {i \in Ids(tbl) :
                       /\ tbl[i].instance_uuid = candidate.instance_uuid
                       /\ candidate.serial # None
                       /\ tbl[i].serial = candidate.serial})

\* lines 538-541: the record with the candidate's (instance_uuid, serial);
\* serial=None is looked up as IS NULL
ExistingPrototype(tbl, candidate) ==
  FirstProtoIn(tbl, {i \in Ids(tbl) :
                       /\ tbl[i].instance_uuid = candidate.instance_uuid
                       /\ tbl[i].serial = candidate.serial})

\* the ObjectChange row object_changelog saves; the jobs are started from the
\* views with the id of the requesting user, so self.user is set
Change(object_action, model, pk) ==
  [action |-> object_action, changed_object |-> <<model, pk>>]

\* a score that does not count the site
score_without_site(matching, same_serial, same_name, primary_ip4, device_type, site) ==
    (IF matching THEN 5 ELSE 0)
  + (IF matching /\ same_serial THEN 1 ELSE 0)
  + (IF matching /\ same_name THEN 1 ELSE 0)
  + (IF primary_ip4 THEN 1 ELSE 0)
  + (IF device_type THEN 1 ELSE 0)

\* lines 475-480 and 508-513: the score, from what the pass found
score_of(matching, same_serial, same_name, primary_ip4, device_type, site) ==
    (IF matching THEN 5 ELSE 0)
  + (IF matching /\ same_serial THEN 1 ELSE 0)
  + (IF matching /\ same_name THEN 1 ELSE 0)
  + (IF primary_ip4 THEN 1 ELSE 0)
  + (IF device_type THEN 1 ELSE 0)
  + (IF site THEN 1 ELSE 0)

process_prototype(db, c, p) ==
  LET u           == p.unit
      tenant0     == default_tenant(c)
      hostname    == u.hostname
      serial      == u.serialNumber
      \* lines 423-425
      device_type == DeviceTypeOf(u.platformId)
      sdn_management_ip ==
        IF u.managementIpAddress = None THEN NoAddr
        ELSE [host |-> u.managementIpAddress,
              len  |-> IF p.managementMask = <<>> THEN 0
                       ELSE mask_to_cidr(p.managementMask)]
      \* lines 538-553; e is existing_device_prototype
      \* changes are the entries object_changelog has written so far
      Save(candidate, devices2, ips1, changes) ==
        LET e == ExistingPrototype(db.protos, candidate)
        IN [protos  |-> IF e = 0 THEN Append(db.protos, candidate)
                        ELSE [db.protos EXCEPT
                                ![e] = CopyFields(db.protos[e], candidate)],
            devices |-> devices2,
            ips     |-> ips1,
            pid     |-> IF e = 0 THEN Len(db.protos) + 1 ELSE e,
            \* line 554
            changes |-> Append(changes,
                          IF e = 0 THEN Change("create", "prototype", Len(db.protos) + 1)
                          ELSE Change("update", "prototype", e))]
      \* lines 467-536; m is matching_netbox_device
      Build(devices2, ips1, primary_ip4, site0, m, related_netbox_device, changes) ==
        LET \* lines 469-473
            site   == IF m # 0 THEN devices2[m].site ELSE site0
            tenant == IF m # 0 /\ devices2[m].tenant # None THEN devices2[m].tenant
                      ELSE tenant0
            role   == IF m # 0 THEN devices2[m].role ELSE None
            \* lines 475-480, 508-513
            score  == score_of(m # 0,
                               m # 0 /\ serial = devices2[m].serial,
                               m # 0 /\ hostname = devices2[m].name,
                               primary_ip4 # 0, device_type # None, site # None)
        IN Save([serial                 |-> serial,
                 sdn_hostname           |-> hostname,
                 sdn_management_ip      |-> sdn_management_ip,
                 primary_ip4            |-> primary_ip4,
                 matching_netbox_device |-> m,
                 related_netbox_device  |-> related_netbox_device,
                 sdn_device_type        |-> u.platformId,
                 device_type            |-> device_type,
                 sdn_role               |-> u.role,
                 stack_info             |-> u.stack_info,
                 stack_index            |-> <<u.rank>>,
                 role                   |-> role,
                 raw_data               |-> [managementIpAddress |-> u.managementIpAddress,
                                             interfaces          |-> p.interfaces],
                 sdn_controller         |-> c,
                 instance_uuid          |-> u.id,
                 site                   |-> site,
                 tenant                 |-> tenant,
                 score                  |-> score,
                 sync_status            |-> DISCOVERED],
                devices2, ips1, changes)
      \* lines 460-465: a related device without serial becomes the matching one
      Adopt(devices1, ips1, primary_ip4, site0, matching0, related_netbox_device,
            changes) ==
        IF /\ related_netbox_device # 0
           /\ matching0 = 0
           /\ serial # None
           /\ devices1[related_netbox_device].serial = None
        THEN Build([devices1 EXCEPT ![related_netbox_device].serial = serial],
                   ips1, primary_ip4, site0, related_netbox_device,
                   related_netbox_device,
                   \* line 464
                   Append(changes, Change("update", "device", related_netbox_device)))
        ELSE Build(devices1, ips1, primary_ip4, site0, matching0,
                   related_netbox_device, changes)
      \* lines 451-458
      Relate(devices1, ips1, primary_ip4, site0, matching0, changes) ==
        LET related1 ==
              IF matching0 = 0 /\ hostname # <<>>
              THEN FirstDeviceIn(devices1,
                     {i \in Ids(devices1) : devices1[i].name = hostname})
              ELSE 0
            related2 ==
              IF related1 = 0 /\ primary_ip4 # 0
              THEN FirstDeviceIn(devices1,
                     {i \in Ids(devices1) : devices1[i].primary_ip4 = primary_ip4})
              ELSE related1
        IN Adopt(devices1, ips1, primary_ip4, site0, matching0,
                 IF related2 = 0
                 THEN FirstDeviceIn(devices1,
                        {i \in Ids(devices1) : Contains(devices1[i].name, hostname)})
                 ELSE related2,
                 changes)
      \* lines 433-449; found is the address the lookup of line 434 returns
      Address(devices1, matching0, found, changes) ==
        LET ips1 ==
              IF sdn_management_ip # NoAddr /\ found = 0
              THEN Append(db.ips, [address  |-> StoredAddress(sdn_management_ip),
                                   tenant   |-> tenant0,
                                   assigned |-> 0])
              ELSE db.ips
            primary_ip4 ==
              IF sdn_management_ip = NoAddr THEN 0
              ELSE IF found = 0 THEN Len(ips1) ELSE found
        IN Relate(devices1, ips1, primary_ip4,
                  IF primary_ip4 = 0 THEN None
                  ELSE get_site_from_prefix(ips1[primary_ip4].address.host),
                  matching0,
                  \* line 442
                  IF sdn_management_ip # NoAddr /\ found = 0
                  THEN Append(changes, Change("create", "ipaddress", Len(ips1)))
                  ELSE changes)
      \* lines 414-420: matching0 is the device with the unit's serial
      Match(matching0) ==
        LET rename == IF matching0 = 0 THEN <<>>
                      ELSE Append(db.devices[matching0].name, "1")
            renamed == /\ matching0 # 0
                       /\ EndsWithDash1(hostname)
                       /\ ~EndsWithDash1(db.devices[matching0].name)
                       /\ ~\E i \in Ids(db.devices) : db.devices[i].name = rename
        IN Address(IF renamed THEN [db.devices EXCEPT ![matching0].name = rename]
                   ELSE db.devices,
                   matching0,
                   IF sdn_management_ip = NoAddr THEN 0
                   ELSE FirstIpIn(db.ips, {i \in Ids(db.ips) :
                                    StartsWith(db.ips[i].address, sdn_management_ip)}),
                   \* line 420
                   IF renamed THEN <<Change("update", "device", matching0)>> ELSE <<>>)
  \* line 413
  IN Match(IF serial = None THEN 0
           ELSE FirstDeviceIn(db.devices,
                  {i \in Ids(db.devices) : db.devices[i].serial = serial}))

(***************************************************************************)
(* Stack index of an inventory device.  From here on db is                 *)
(* [protos, devices, ifaces, ips].                                         *)
(***************************************************************************)
IfacesOf(db, d) == {i \in Ids(db.ifaces) : db.ifaces[i].device = d}

RECURSIVE SortedSeq(_)
SortedSeq(S) ==
  IF S = {} THEN <<>>
  ELSE LET x == CHOOSE y \in S : \A z \in S : y <= z
       IN <<x>> \o SortedSeq(S \ {x})

\* utils.netbox_stack_position: the sorted numeric prefixes "n/" of the names
netbox_stack_position(db, d) ==
  LET index_list == {db.ifaces[i].name.nums[1] :
                       i \in {j \in IfacesOf(db, d) : Len(db.ifaces[j].name.nums) >= 2}}
  IN IF Cardinality(index_list) > 4 THEN <<1>>
     ELSE IF 0 \in index_list /\ Cardinality(index_list) > 1
          THEN SortedSeq(index_list \ {0})
          ELSE SortedSeq(index_list)

\* NetBoxDevice.netbox_stack_index
netbox_stack_index(db, d) ==
  LET related_prototype ==
        FirstProtoIn(db.protos, {i \in Ids(db.protos) :
                                   db.protos[i].matching_netbox_device = d})
  IN IF related_prototype # 0 /\ ~virtual_chassis(db.protos[related_prototype])
     THEN <<1>>
     ELSE netbox_stack_position(db, d)

\* utils.is_device_type_template: a template of the device's type has the
\* interface's alphabetic prefix
is_device_type_template(db, i) ==
  LET related_device_type == db.devices[db.ifaces[i].device].device_type
  IN \E tpl \in InterfaceTemplates(related_device_type, 1) :
       tpl.t = db.ifaces[i].name.t

(***************************************************************************)
(* SdnManager.clean_prototype_interfaces                                   *)
(***************************************************************************)
SameStack(db, pid) ==
  {i \in Ids(db.protos) : db.protos[i].instance_uuid = db.protos[pid].instance_uuid}

clean_prototype_interfaces(db, pid) ==
  LET matched == {db.protos[s].matching_netbox_device : s \in SameStack(db, pid)} \ {0}
      doomed  == {i \in Ids(db.ifaces) :
                    /\ db.ifaces[i].device \in matched
                    /\ ~db.ifaces[i].cable
                    /\ ~db.ifaces[i].module
                    /\ ~is_valid_interface(db.ifaces[i].name)
                    /\ ~is_device_type_template(db, i)}
  IN [db EXCEPT !.ifaces = [i \in Ids(db.ifaces) |->
                              IF i \in doomed
                              THEN [db.ifaces[i] EXCEPT !.device = 0]
                              ELSE db.ifaces[i]]]

(***************************************************************************)
(* SdnManager.validate_prototype                                           *)
(***************************************************************************)
\* "0/0" in actual_interface.name
HasZeroZero(name) ==
  \E k \in 1..(Len(name.nums) - 1) : name.nums[k] = 0 /\ name.nums[k + 1] = 0

PrototypeInterfaceNames(proto) ==
  {proto.raw_data.interfaces[k].portName : k \in DOMAIN proto.raw_data.interfaces}

\* lines 1402-1414
RelatedNotMatching(s) ==
  s.matching_netbox_device = 0 /\ s.related_netbox_device # 0

\* the check of lines 1418-1423 without 'role' and 'site'
MissingIdentityField(s) ==
  \/ s.sdn_hostname = <<>>
  \/ s.device_type = None
  \/ s.tenant = None
  \/ s.serial = None

\* lines 1418-1423
MissingRequiredField(s) ==
  \/ s.sdn_hostname = <<>>
  \/ s.role = None
  \/ s.device_type = None
  \/ s.tenant = None
  \/ s.site = None
  \/ s.serial = None

\* a check of the stack index that never fails
StackIndexUnchecked(db, s) == FALSE

\* lines 1426-1435
StackIndexMismatch(db, s) ==
  /\ s.matching_netbox_device # 0
  /\ netbox_stack_index(db, s.matching_netbox_device) # <<>>
  /\ netbox_stack_index(db, s.matching_netbox_device) # s.stack_index

\* lines 1439-1450
PrimaryIpMismatch(db, s) ==
  /\ s.matching_netbox_device # 0
  /\ db.devices[s.matching_netbox_device].primary_ip4 # 0
  /\ s.primary_ip4 # 0
  /\ db.devices[s.matching_netbox_device].primary_ip4 # s.primary_ip4

\* lines 1464-1491, for one interface of the matching device
InterfaceFails(db, s, i) ==
  LET actual_interface == db.ifaces[i]
      listed == actual_interface.name \in PrototypeInterfaceNames(s)
  IN IF actual_interface.type \in {"virtual", "lag"} /\ listed THEN FALSE
     ELSE IF HasZeroZero(actual_interface.name) THEN FALSE
     ELSE \/ ~listed
          \/ /\ ~is_valid_interface(actual_interface.name)
             /\ ~actual_interface.module
             /\ ~is_device_type_template(db, i)

\* lines 1400-1506 for one prototype s of the stack: no check calls log_failure
StackMemberIsOk(db, s, after_modules) ==
  /\ ~RelatedNotMatching(s)
  /\ ~MissingRequiredField(s)
  /\ ~StackIndexMismatch(db, s)
  /\ ~PrimaryIpMismatch(db, s)
  /\ (after_modules /\ s.matching_netbox_device # 0) =>
       \A i \in IfacesOf(db, s.matching_netbox_device) : ~InterfaceFails(db, s, i)

validate_prototype(db, pid, after_modules) ==
  \A k \in SameStack(db, pid) : StackMemberIsOk(db, db.protos[k], after_modules)

\* the messages validate_prototype hands to its log_failure (lines 1392-1397),
\* one kind per prototype of the stack that fails a check; with_logs is
\* log_all_errors, without it nothing reaches script.log_failure
ValidationFailures(db, pid, after_modules, with_logs) ==
  IF with_logs
  THEN {<<"validation", k>> : k \in {j \in SameStack(db, pid) :
                                       ~StackMemberIsOk(db, db.protos[j], after_modules)}}
  ELSE {}

(***************************************************************************)
(* SdnManager.import_fetched_elements_in_netbox: the body of the loop for  *)
(* one selected prototype.                                                 *)
(***************************************************************************)
\* utils.get_most_common_interface_type: the type of the templates whose name
\* holds the interface's base name
get_most_common_interface_type(iface_name) ==
  IF iface_name.t = "GigabitEthernet" THEN "1000base-t" ELSE None

\* SdnDevice.save of a new device: "{chassis}" is the stack_index of the first
\* prototype with the device's serial, and the templates of the device type
\* become the first interfaces of the device
ChassisOf(db, serial) ==
  LET device_prototype ==
        FirstProtoIn(db.protos, {i \in Ids(db.protos) : db.protos[i].serial = serial})
  IN IF device_prototype = 0 THEN 1 ELSE db.protos[device_prototype].stack_index[1]

TemplateInterfaces(db, d) ==
  LET dev   == db.devices[d]
      names == SeqOfSet(InterfaceTemplates(dev.device_type, ChassisOf(db, dev.serial)))
  IN [k \in DOMAIN names |->
        [device |-> d, name |-> names[k], type |-> "1000base-t",
         cable |-> FALSE, module |-> FALSE]]

\* lines 1131-1139; Device names are unique per site and tenant
NameTaken(db, proto) ==
  \E i \in Ids(db.devices) :
     /\ db.devices[i].name = proto.sdn_hostname
     /\ db.devices[i].site = proto.site
     /\ db.devices[i].tenant = proto.tenant

CreateDevice(db, proto) ==
  LET with_device ==
        [db EXCEPT !.devices = Append(@, [name        |-> proto.sdn_hostname,
                                          role        |-> proto.role,
                                          device_type |-> proto.device_type,
                                          tenant      |-> proto.tenant,
                                          site        |-> proto.site,
                                          serial      |-> proto.serial,
                                          primary_ip4 |-> 0])]
  IN [with_device EXCEPT
        !.ifaces = @ \o TemplateInterfaces(with_device, Len(with_device.devices))]

\* matching_interfaces (lines 664-689)
matching_interfaces(db, proto, d) ==
  \/ IfacesOf(db, d) = {}
  \/ \E n \in PrototypeInterfaceNames(proto), i \in IfacesOf(db, d) :
        \/ db.ifaces[i].name = n
        \/ Len(n.nums) >= 2 /\ Contains(db.ifaces[i].name.nums, n.nums)

\* the address object is the primary IPv4 of a device other than d
PrimaryElsewhere(db, d, ip_address_object) ==
  \E other \in Ids(db.devices) \ {d} : db.devices[other].primary_ip4 = ip_address_object

\* process_ip_addresses (lines 1039-1102) for interface i of the device; db has
\* the tables and the log of the failures of process_interfaces
process_ip_addresses(db, proto, iface_data, i) ==
  LET current_device == db.ifaces[i].device
      management_ip_address == proto.raw_data.managementIpAddress
      address_is_primary == /\ management_ip_address # None
                            /\ iface_data.ipv4Address # None
                            /\ management_ip_address = iface_data.ipv4Address
      ipv4_address ==
        StoredAddress([host |-> iface_data.ipv4Address,
                       len  |-> IF iface_data.ipv4Mask = <<>> THEN 0
                                ELSE mask_to_cidr(iface_data.ipv4Mask)])
      \* lines 1078-1093: the tenant of the address, the primary IP of the device
      Assigned(ips1, ip_address_object) ==
        [db EXCEPT
           !.ips = IF ips1[ip_address_object].tenant = None
                   THEN [ips1 EXCEPT ![ip_address_object].tenant =
                                        db.devices[current_device].tenant]
                   ELSE ips1,
           \* primary_ip4 is a one-to-one field: the save of line 1090 raises
           \* when another device has the address as primary IPv4, and the
           \* handler of lines 1098-1102 logs the failure
           !.devices = IF /\ address_is_primary
                          /\ @[current_device].primary_ip4 = 0
                          /\ ~PrimaryElsewhere(db, current_device, ip_address_object)
                       THEN [@ EXCEPT ![current_device].primary_ip4 = ip_address_object]
                       ELSE @,
           !.log = IF /\ address_is_primary
                      /\ db.devices[current_device].primary_ip4 = 0
                      /\ PrimaryElsewhere(db, current_device, ip_address_object)
                   THEN @ \cup {"Unable to create ip address"}
                   ELSE @]
      \* lines 1050-1076: found is the address object of that address, if any
      Assign(found) ==
        IF found = 0
        THEN Assigned(Append(db.ips, [address |-> ipv4_address, tenant |-> None,
                                      assigned |-> i]),
                      Len(db.ips) + 1)
        ELSE IF db.ips[found].assigned # 0 /\ db.ips[found].assigned # i
             THEN Assigned(db.ips, found)
             ELSE Assigned([db.ips EXCEPT ![found].assigned = i], found)
  IN IF iface_data.ipv4Address = None THEN db
     ELSE Assign(FirstIpIn(db.ips,
                   {k \in Ids(db.ips) : db.ips[k].address = ipv4_address}))

\* lines 756-828 for one interface of the prototype
ProcessInterface(db, proto, d, iface_data) ==
  LET iface_name == iface_data.portName
      hit == {i \in IfacesOf(db, d) : db.ifaces[i].name = iface_name}
      most_common == get_most_common_interface_type(iface_name)
      \* lines 770-828: interface_object is the device's interface of that name
      WithInterface(interface_object) ==
        IF interface_object # 0
        THEN process_ip_addresses(db, proto, iface_data, interface_object)
        ELSE IF is_valid_interface(iface_name)
        THEN process_ip_addresses(
               [db EXCEPT !.ifaces =
                  Append(@, [device |-> d, name |-> iface_name,
                             type   |-> IF most_common # None THEN most_common
                                        ELSE iface_data.interfaceType,
                             cable |-> FALSE, module |-> FALSE])],
               proto, iface_data, Len(db.ifaces) + 1)
        ELSE db
  IN WithInterface(IF hit = {} THEN 0 ELSE CHOOSE i \in hit : \A j \in hit : i <= j)

RECURSIVE ProcessInterfaceList(_, _, _, _)
ProcessInterfaceList(db, proto, d, list) ==
  IF list = <<>> THEN db
  ELSE ProcessInterfaceList(ProcessInterface(db, proto, d, Head(list)),
                            proto, d, Tail(list))

\* the tables of db, without the log
Tables(db) ==
  [protos |-> db.protos, devices |-> db.devices, ifaces |-> db.ifaces, ips |-> db.ips]

\* process_interfaces (lines 745-836): the tables after it, and log, the
\* failures its handlers logged
process_interfaces(db, pid, d, map_interfaces) ==
  LET Logged(r) == [protos |-> r.protos, devices |-> r.devices, ifaces |-> r.ifaces,
                    ips |-> r.ips, log |-> {}]
  IN IF map_interfaces /\ ~matching_interfaces(db, db.protos[pid], d) THEN Logged(db)
     ELSE ProcessInterfaceList(Logged(db), db.protos[pid], d,
                               db.protos[pid].raw_data.interfaces)

\* remap_interfaces: the names of the catalog come in one form only, so no
\* interface has a duplicate under another naming form and nothing is merged
remap_interfaces(db, pid, d) == db

\* where an attempt can raise: "create" is new_device.save() for a new device
\* (line 1139), "device_save" is new_device.save() at line 1174
Raises == {"none", "create", "device_save"}

\* lines 1114-1198.  The result is the tables after the attempt and what the
\* attempt went through: pre and post are the verdicts of the two validations
\* ("skipped" when the attempt did not get there).
ImportAttempt(db0, pid, exc, with_logs) ==
  LET \* lines 1183-1195: the post-check; failures are the messages logged so far
      PostCheck(db5, failures) ==
        IF validate_prototype(db5, pid, TRUE)
        THEN [db |-> db5, pre |-> "passed", post |-> "passed", raised |-> FALSE,
              failures |-> failures]
        ELSE [db |-> [db5 EXCEPT !.protos[pid].sync_status = DISCOVERED],
              pre |-> "passed", post |-> "failed", raised |-> FALSE,
              failures |-> failures \cup ValidationFailures(db5, pid, TRUE, with_logs)]
      \* lines 1177-1181; line 748 logs when the interfaces are not mapped
      Interfaces(db4, new_device, fresh) ==
        LET Processed(r) ==
              PostCheck(remap_interfaces(Tables(r), pid, new_device),
                        {<<message, pid>> : message \in r.log}
                          \cup IF /\ ~fresh
                                  /\ ~matching_interfaces(db4, db4.protos[pid], new_device)
                               THEN {<<"interface naming doesnt match", pid>>}
                               ELSE {})
        IN Processed(process_interfaces(db4, pid, new_device, ~fresh))
      \* lines 1165-1181: db2 has the device new_device of the prototype
      Populate(db2, proto, new_device, fresh) ==
        LET \* lines 1165-1168
            db3 == [db2 EXCEPT !.protos[pid].matching_netbox_device = new_device,
                               !.protos[pid].sync_status = IMPORTED]
        IN IF exc = "device_save"
           THEN [db |-> db3, pre |-> "passed", post |-> "skipped", raised |-> TRUE,
                 failures |-> {<<"Unable to create prototype", pid>>}]
           ELSE Interfaces(\* lines 1172-1174
                           IF proto.device_type # None
                           THEN [db3 EXCEPT !.devices[new_device].device_type =
                                               proto.device_type]
                           ELSE db3,
                           new_device, fresh)
      \* lines 1129-1162
      Device(db1, proto) ==
        IF proto.matching_netbox_device = 0
        THEN IF exc = "create" \/ NameTaken(db1, proto)
             THEN [db |-> db1, pre |-> "passed", post |-> "skipped", raised |-> TRUE,
                   failures |-> {<<"Unable to create prototype", pid>>}]
             ELSE Populate(CreateDevice(db1, proto), proto, Len(db1.devices) + 1, TRUE)
        ELSE Populate(IF db1.devices[proto.matching_netbox_device].serial = None
                      THEN [db1 EXCEPT
                              !.devices[proto.matching_netbox_device].serial =
                                 proto.serial]
                      ELSE db1,
                      proto, proto.matching_netbox_device, FALSE)
      \* lines 1116-1124: the pre-check
      PreCheck(db1) ==
        IF validate_prototype(db1, pid, FALSE)
        THEN Device(db1, db1.protos[pid])
        ELSE [db |-> [db1 EXCEPT !.protos[pid].sync_status = DISCOVERED],
              pre |-> "failed", post |-> "skipped", raised |-> FALSE,
              failures |-> ValidationFailures(db1, pid, FALSE, with_logs)]
  \* line 1115
  IN PreCheck(clean_prototype_interfaces(db0, pid))

(***************************************************************************)
(* The jobs of tasks.py, one step at a time.  A job runs from its start to *)
(* its Finish before another one starts.                                   *)
(***************************************************************************)
Db == [protos |-> protos, devices |-> devices, ifaces |-> ifaces, ips |-> ips]

RECURSIVE LoadUnits(_, _)
\* the units of the report with the data of their per-unit queries
LoadUnits(units, report) ==
  IF units = <<>> THEN <<>>
  ELSE LET u   == Head(units)
           raw == report[CHOOSE k \in DOMAIN report : report[k].id = u.id]
       IN <<LoadUnit(u, raw)>> \o LoadUnits(Tail(units), report)

\* the list without its exclude(sync_status=DELETED)
prototype_object_list_unfiltered(tbl, id_list) ==
  OrderedProtos(tbl, Ids(tbl) \cap id_list)

\* prototype_object_list as the import loop iterates it:
\* filter(id__in=...).exclude(sync_status=DELETED)
prototype_object_list(tbl, id_list) ==
  OrderedProtos(tbl, {i \in Ids(tbl) \cap id_list : tbl[i].sync_status # DELETED})

NoMgr ==
  [kind |-> "none", controller |-> "c1", report |-> <<>>, id_list |-> {},
   uuid_list |-> {},
   units |-> <<>>, prototype_list |-> {}, todo |-> <<>>,
   processed |-> {}, passed_pre |-> {}, passed_post |-> {}, raised |-> {},
   locals |-> NoLocals, fault |-> NoFault, failed |-> FALSE, failures |-> {}]

\* log_all_errors as the task of the job passes it (tasks.py lines 143-144,
\* 194-196, 235-238)
log_all_errors(kind) == kind # "fetch"

\* the raw device whose id the queries of the next turn name
UnitRaw(m) ==
  m.report[CHOOSE k \in DOMAIN m.report : m.report[k].id = Head(m.units).unit.id]

\* a log_failure that records the message and leaves the script's flag alone
log_failure_unflagged(m, message) ==
  [m EXCEPT !.failures = @ \cup {message}]

\* script.log_failure: the message is logged and the script is marked failed,
\* which is what import_fetched_elements_in_netbox returns the negation of
\* (line 1200); m is the manager with its script
log_failure(m, message) ==
  [m EXCEPT !.failed = TRUE, !.failures = @ \cup {message}]

\* the log_failure calls of one turn of the import loop, one per message
log_failures(m, messages) ==
  IF messages = {} THEN m
  ELSE [log_failure(m, CHOOSE message \in messages : TRUE)
          EXCEPT !.failures = @ \cup messages]

\* lines 1105-1107: import_fetched_elements_in_netbox on an empty list
EnterImport(m) ==
  IF m.todo = <<>> THEN log_failure(m, <<"No item was selected", 0>>) ELSE m

\* line 1200: what import_fetched_elements_in_netbox returns
job_success(m) == ~m.failed

\* no call of offset_handler, no call of split_device_list, no merge is under
\* study
NoPager == [n |-> 0, offset |-> 1, data |-> <<>>, requests |-> <<>>, done |-> TRUE]

NoSplitter == [device_list |-> <<>>, uuid_list |-> {}, units |-> <<>>, done |-> TRUE]

NoMerger == [kind |-> "none", done |-> TRUE]

NoRemap == [rows |-> <<>>, reported |-> None, pairs |-> <<>>, done |-> TRUE]

NoBays == [rows |-> <<>>, reported |-> <<>>, fresh |-> FALSE, module_bay_count |-> 0,
           done |-> TRUE]

NoCall == [management |-> None, iface_data |-> <<>>, interface |-> 0, log |-> {},
           done |-> TRUE]

\* the SdnController row: the fields the jobs and the views write
NoRow == [last_fetch_job |-> 0, last_sync_job |-> 0, last_sync_job_success |-> "none",
          edited |-> 0]

NoCtrl == [row |-> NoRow, created |-> 0, queue |-> <<>>,
           worker |-> [kind |-> "idle", sdn_controller |-> NoRow]]

NoSubs == [items |-> <<>>, at |-> 1, handled |-> {}, failed |-> FALSE, failures |-> {},
           warnings |-> {}, done |-> TRUE, result |-> TRUE]

\* the inventories a behaviour can start from
Inventories ==
  { \* nothing yet
    [devices |-> <<>>, ifaces |-> <<>>, ips |-> <<>>],
    \* switch s1 is known, with an interface left over from a removed module,
    \* and router rt is known under the serial of the unit it replaced
    [devices |-> <<[name |-> <<"sw">>, serial |-> "s1", device_type |-> "dt1",
                    role |-> "role1", site |-> "site1", tenant |-> "ten1",
                    primary_ip4 |-> 0],
                   [name |-> <<"rt">>, serial |-> "s9", device_type |-> "dt1",
                    role |-> "role1", site |-> "site1", tenant |-> "ten1",
                    primary_ip4 |-> 0]>>,
     ifaces  |-> <<[device |-> 1, name |-> Gi(1, 1, 1), type |-> "1000base-t",
                    cable |-> FALSE, module |-> FALSE]>>,
     ips     |-> <<>>],
    \* the stack is known under its hostname and address, without a serial
    [devices |-> <<[name |-> <<"st">>, serial |-> None, device_type |-> "dt1",
                    role |-> "role1", site |-> "site1", tenant |-> "ten1",
                    primary_ip4 |-> 1]>>,
     ifaces  |-> <<[device |-> 1, name |-> Gi(1, 0, 1), type |-> "1000base-t",
                    cable |-> FALSE, module |-> FALSE]>>,
     ips     |-> <<[address |-> [host |-> "ip2", len |-> 24], tenant |-> "ten1",
                    assigned |-> 1]>>] }

Init ==
  /\ protos = <<>>
  /\ \E inv \in Inventories :
       /\ devices = inv.devices
       /\ ifaces = inv.ifaces
       /\ ips = inv.ips
  /\ pc = "idle"
  /\ mgr = NoMgr
  /\ jobs = 0
  /\ edits = 0
  /\ ctrl = NoCtrl
  /\ addr = NoCall
  /\ subs = NoSubs
  /\ bays = NoBays
  /\ remap = NoRemap
  /\ pager = NoPager
  /\ splitter = NoSplitter
  /\ merger = NoMerger

\* the id lists the views start a job of controller c with: the records ticked
\* on the controller's page (all of them, or one), or the stack of one record
\* (views.sync_prototype_task, views.fetch_and_sync_prototype_task)
OfController(c) == {i \in Ids(protos) : protos[i].sdn_controller = c}

Selections(c) ==
  ({OfController(c)} \cup {{i} : i \in OfController(c)}
     \cup {SameStack(Db, i) : i \in OfController(c)}) \ {{}}

\* the records a bulk edit is submitted for
EditSelections == {Ids(protos)} \cup {{i} : i \in Ids(protos)}

\* tasks.run_task -> NetworkControllerFetch.run, up to its first unit
StartFetch(c, report) ==
  /\ pc = "idle"
  /\ jobs < MaxJobs
  /\ jobs' = jobs + 1
  /\ pc' = "sync"
  /\ mgr' = [NoMgr EXCEPT !.kind = "fetch", !.controller = c, !.report = report,
                          !.units = LoadUnits(split_device_list(report, {}), report)]
  /\ UNCHANGED <<protos, devices, ifaces, ips, edits, pager, splitter, merger, remap, bays, subs, addr, ctrl>>

\* tasks.run_task -> FetchAndSync.run, up to its first unit; __init__ iterates
\* prototype_object_list, which fixes the records the import loop will visit
StartFetchSync(c, report, id_list) ==
  /\ pc = "idle"
  /\ jobs < MaxJobs
  /\ id_list # {}
  /\ jobs' = jobs + 1
  /\ pc' = "sync"
  /\ LET todo == prototype_object_list(protos, id_list)
         uuid_list == {protos[todo[k]].instance_uuid : k \in DOMAIN todo}
     IN mgr' = [NoMgr EXCEPT !.kind = "fetchsync", !.controller = c,
                             !.report = report, !.id_list = id_list,
                             !.uuid_list = uuid_list,
                             !.todo = todo,
                             !.units = LoadUnits(split_device_list(report, uuid_list),
                                                 report)]
  /\ UNCHANGED <<protos, devices, ifaces, ips, edits, pager, splitter, merger, remap, bays, subs, addr, ctrl>>

\* tasks.run_task -> ImportDataInNetBox.run, up to the import loop
StartImport(c, id_list) ==
  /\ pc = "idle"
  /\ jobs < MaxJobs
  /\ id_list # {}
  /\ jobs' = jobs + 1
  /\ pc' = "import"
  /\ mgr' = EnterImport([NoMgr EXCEPT !.kind = "import", !.controller = c,
                                      !.id_list = id_list,
                                      !.todo = prototype_object_list(protos, id_list)])
  /\ UNCHANGED <<protos, devices, ifaces, ips, edits, pager, splitter, merger, remap, bays, subs, addr, ctrl>>

\* one turn of the loop of sync_sdn_controller_devices (lines 239-348)
SyncUnit ==
  /\ pc = "sync"
  /\ mgr.units # <<>>
  /\ LET \* r is what process_prototype returns
         Saved(r) ==
           /\ protos' = r.protos
           /\ devices' = r.devices
           /\ ips' = r.ips
           /\ mgr' = [mgr EXCEPT
                        !.units = Tail(@),
                        !.prototype_list = @ \cup {<<r.protos[r.pid].instance_uuid,
                                                     r.protos[r.pid].serial>>},
                        !.locals = [bound |-> TRUE,
                                    interfaces |->
                                      DedupAddresses(
                                        TurnQueries(Head(mgr.units).unit, UnitRaw(mgr),
                                                    NoFault, mgr.locals).interfaces)],
                        !.fault = NoFault]
     IN Saved(process_prototype([protos |-> protos, devices |-> devices, ips |-> ips],
                                mgr.controller, Head(mgr.units)))
  /\ UNCHANGED <<ifaces, pc, jobs, edits, pager, splitter, merger,
                 remap,
                 bays,
                 subs,
                 addr,
                 ctrl>>

\* one turn of the same loop in which a query of the unit raises
SyncUnitFaulty(fault) ==
  /\ pc = "sync"
  /\ mgr.units # <<>>
  /\ LET u == Head(mgr.units).unit
         \* r is what process_prototype returns, list what the try statement left
         Saved(r, list) ==
           /\ protos' = r.protos
           /\ devices' = r.devices
           /\ ips' = r.ips
           /\ pc' = pc
           /\ mgr' = [mgr EXCEPT
                        !.units = Tail(@),
                        !.prototype_list = @ \cup {<<r.protos[r.pid].instance_uuid,
                                                     r.protos[r.pid].serial>>},
                        !.locals = [bound |-> TRUE, interfaces |-> DedupAddresses(list)],
                        !.fault = fault]
         \* t is what the try statement left
         Turn(t) ==
           IF t.raised
           THEN \* the exception leaves run(); run_task logs it and the job ends
                \* (tasks.py lines 104-116)
                /\ pc' = "idle"
                /\ mgr' = log_failure([NoMgr EXCEPT !.fault = fault],
                                      <<"An exception occurred", 0>>)
                /\ UNCHANGED <<protos, devices, ips>>
           ELSE Saved(process_prototype(
                        [protos |-> protos, devices |-> devices, ips |-> ips],
                        mgr.controller, LoadFrom(u, t.interfaces)),
                      t.interfaces)
     IN Turn(TurnQueries(u, UnitRaw(mgr), fault, mgr.locals))
  /\ UNCHANGED <<ifaces, jobs, edits, pager, splitter, merger,
                 remap,
                 bays,
                 subs,
                 addr,
                 ctrl>>

\* the detection if it compared the instance_uuid alone
MarkDeletedByUuid(tbl, c, prototype_keys) ==
  [i \in Ids(tbl) |->
     IF /\ tbl[i].sdn_controller = c
        /\ \A key \in prototype_keys : key[1] # tbl[i].instance_uuid
     THEN [tbl[i] EXCEPT !.sync_status = DELETED]
     ELSE tbl[i]]

\* check_for_deleted_devices (lines 367-376): the status of the records of the
\* manager's controller whose key the pass did not build
MarkDeleted(tbl, c, prototype_keys) ==
  [i \in Ids(tbl) |->
     IF /\ tbl[i].sdn_controller = c
        /\ <<tbl[i].instance_uuid, tbl[i].serial>> \notin prototype_keys
     THEN [tbl[i] EXCEPT !.sync_status = DELETED]
     ELSE tbl[i]]

\* NetworkControllerFetch.run after the last unit: check_for_deleted_devices,
\* then prototype_object_list = every record that is not Deleted
CheckForDeleted ==
  /\ pc = "sync"
  /\ mgr.units = <<>>
  /\ mgr.kind = "fetch"
  /\ protos' = MarkDeleted(protos, mgr.controller, mgr.prototype_list)
  /\ pc' = "import"
  /\ mgr' = EnterImport([mgr EXCEPT
                            !.todo = prototype_object_list(protos', Ids(protos'))])
  /\ UNCHANGED <<devices, ifaces, ips, jobs, edits, pager, splitter, merger,
                 remap,
                 bays,
                 subs,
                 addr,
                 ctrl>>

\* FetchAndSync.run after the last unit: straight to the import loop
SyncDone ==
  /\ pc = "sync"
  /\ mgr.units = <<>>
  /\ mgr.kind = "fetchsync"
  /\ pc' = "import"
  /\ mgr' = EnterImport(mgr)
  /\ UNCHANGED <<protos, devices, ifaces, ips, jobs, edits, pager, splitter, merger,
                 remap,
                 bays,
                 subs,
                 addr,
                 ctrl>>

\* one turn of the loop of import_fetched_elements_in_netbox (lines 1110-1198)
ImportOne(exc) ==
  /\ pc = "import"
  /\ mgr.todo # <<>>
  /\ LET pid == Head(mgr.todo)
         \* a is the outcome of the attempt
         Attempted(a) ==
           /\ protos' = a.db.protos
           /\ devices' = a.db.devices
           /\ ifaces' = a.db.ifaces
           /\ ips' = a.db.ips
           /\ mgr' = log_failures(
                        [mgr EXCEPT
                           !.todo = Tail(@),
                           !.processed = @ \cup {pid},
                           !.passed_pre = IF a.pre = "passed" THEN @ \cup {pid}
                                          ELSE @ \ {pid},
                           !.passed_post = IF a.post = "passed" THEN @ \cup {pid}
                                           ELSE @ \ {pid},
                           !.raised = IF a.raised THEN @ \cup {pid} ELSE @ \ {pid}],
                        a.failures)
     IN Attempted(ImportAttempt(Db, pid, exc, log_all_errors(mgr.kind)))
  /\ UNCHANGED <<pc, jobs, edits, pager, splitter, merger,
                 remap,
                 bays,
                 subs,
                 addr,
                 ctrl>>

\* the end of the job: the loop is over (or "No item was selected"), the task
\* logs and returns
Finish ==
  /\ pc = "import"
  /\ mgr.todo = <<>>
  /\ pc' = "idle"
  /\ mgr' = NoMgr
  /\ UNCHANGED <<protos, devices, ifaces, ips, jobs, edits, pager, splitter, merger,
                 remap,
                 bays,
                 subs,
                 addr,
                 ctrl>>

(***************************************************************************)
(* The operator: the bulk edit form of the prototype list                  *)
(* (forms.SdnControllerDevicePrototypeBulkEditForm), between two jobs.     *)
(***************************************************************************)
\* what the form is submitted with; None leaves the field as it is
Patches ==
  { [device_type |-> "dt1", role |-> "role1", site |-> "site2", tenant |-> None],
    [device_type |-> None,  role |-> "role1", site |-> "site2", tenant |-> None] }

ApplyPatch(proto, patch) ==
  [proto EXCEPT
     !.device_type = IF patch.device_type # None THEN patch.device_type ELSE @,
     !.role        = IF patch.role # None THEN patch.role ELSE @,
     !.site        = IF patch.site # None THEN patch.site ELSE @,
     !.tenant      = IF patch.tenant # None THEN patch.tenant ELSE @]

OperatorEdit(id_list, patch) ==
  /\ pc = "idle"
  /\ edits < MaxEdits
  /\ id_list # {}
  /\ edits' = edits + 1
  /\ protos' = [i \in Ids(protos) |->
                  IF i \in id_list THEN ApplyPatch(protos[i], patch) ELSE protos[i]]
  /\ UNCHANGED <<devices, ifaces, ips, pc, mgr, jobs, pager, splitter, merger,
                 remap,
                 bays,
                 subs,
                 addr,
                 ctrl>>

Next ==
  \/ \E c \in Controllers : \E report \in Reports(c) : StartFetch(c, report)
  \/ \E c \in Controllers : \E report \in Reports(c), id_list \in Selections(c) :
        StartFetchSync(c, report, id_list)
  \/ \E c \in Controllers : \E id_list \in Selections(c) : StartImport(c, id_list)
  \/ SyncUnit
  \/ CheckForDeleted
  \/ SyncDone
  \/ \E exc \in Raises : ImportOne(exc)
  \/ Finish
  \/ \E id_list \in EditSelections, patch \in Patches : OperatorEdit(id_list, patch)

Spec == Init /\ [][Next]_vars

(***************************************************************************)
(* The fetch job with a controller that can fail to answer a per-unit      *)
(* query.                                                                  *)
(***************************************************************************)
FaultNext ==
  \/ \E c \in Controllers : \E report \in Reports(c) : StartFetch(c, report)
  \/ SyncUnit
  \/ \E fault \in Faults : SyncUnitFaulty(fault)
  \/ CheckForDeleted
  \/ \E exc \in Raises : ImportOne(exc)
  \/ Finish

FaultSpec == Init /\ [][FaultNext]_vars

(***************************************************************************)
(* Properties.                                                             *)
(***************************************************************************)
\* the import pass of the running job is over
EndOfImportPass == pc = "import" /\ mgr.todo = <<>>

KeyOf(proto) == <<proto.instance_uuid, proto.serial>>

\* the attempt for pid went through both validations and both passed
PassedBoth(m, pid) == pid \in m.passed_pre /\ pid \in m.passed_post

\* C1: at the end of an import pass every processed prototype that is Imported
\* passed the pre-check and the post-check of that pass, and every processed
\* prototype with any other outcome (a failed check, an exception raised after
\* the pre-check) is Discovered.
C1_ImportedOnlyAfterBothChecks ==
  EndOfImportPass =>
    \A pid \in mgr.processed :
      /\ protos[pid].sync_status = IMPORTED => PassedBoth(mgr, pid)
      /\ ~PassedBoth(mgr, pid) => protos[pid].sync_status = DISCOVERED

\* the step is check_for_deleted_devices of a fetch job
IsDeletionDetection == pc = "sync" /\ pc' = "import" /\ mgr.kind = "fetch"

\* C2: a status becomes Deleted only in the deletion detection of a fetch job,
\* and right after that detection a prototype of the job's controller is
\* Deleted exactly when its (instance_uuid, serial) is not among the keys the
\* pass built.
C2_DeletedExactlyByDetection ==
  [][ /\ \A i \in Ids(protos') :
           ( /\ protos'[i].sync_status = DELETED
             /\ (i \notin Ids(protos) \/ protos[i].sync_status # DELETED) )
           => IsDeletionDetection /\ protos'[i].sdn_controller = mgr.controller
      /\ IsDeletionDetection =>
           \A i \in Ids(protos') :
              protos'[i].sdn_controller = mgr.controller =>
                ( protos'[i].sync_status = DELETED
                    <=> KeyOf(protos'[i]) \notin mgr.prototype_list )
    ]_vars

\* a detection has just marked a record of its controller and kept another,
\* while a record of the other controller, whose key the pass did not build,
\* is not Deleted
W_C2 ==
  /\ pc = "import" /\ mgr.kind = "fetch" /\ mgr.processed = {}
  /\ \E i, j, k \in Ids(protos) :
       /\ protos[i].sdn_controller = mgr.controller
       /\ protos[i].sync_status = DELETED
       /\ protos[j].sdn_controller = mgr.controller
       /\ protos[j].sync_status # DELETED
       /\ protos[k].sdn_controller # mgr.controller
       /\ KeyOf(protos[k]) \notin mgr.prototype_list
       /\ protos[k].sync_status # DELETED

\* C3: no step removes a prototype record or changes its key; while a record
\* is Deleted an import pass neither changes it nor processes it, even when
\* its id was supplied; and a Deleted record leaves that status only when a
\* fetch pass reports its key, which resets this very record to Discovered
\* without adding a record.
C3_DeletedIsTerminalButRevivable ==
  [][ /\ Len(protos') >= Len(protos)
      /\ \A i \in Ids(protos) :
           /\ KeyOf(protos'[i]) = KeyOf(protos[i])
           /\ protos[i].sync_status = DELETED =>
                /\ pc = "import" =>
                     protos'[i] = protos[i] /\ i \notin mgr'.processed
                /\ protos'[i].sync_status # DELETED =>
                     /\ pc = "sync" /\ mgr.units # <<>>
                     /\ KeyOf(protos[i]) = <<Head(mgr.units).unit.id,
                                             Head(mgr.units).unit.serialNumber>>
                     /\ protos'[i].sync_status = DISCOVERED
                     /\ Len(protos') = Len(protos)
    ]_vars

\* an import job was given the id of a Deleted record and has processed the
\* other records of its list
W_C3 ==
  /\ EndOfImportPass /\ mgr.kind = "import"
  /\ mgr.processed # {}
  /\ \E i \in mgr.id_list : protos[i].sync_status = DELETED

\* C4: no two prototype records have the same (instance_uuid, serial), the
\* absent serial included.
C4_KeyIsUnique ==
  \A i, j \in Ids(protos) : KeyOf(protos[i]) = KeyOf(protos[j]) => i = j

\* the second serial-less unit of a device has been written to the one record
\* of the device, and a later pass has reported the device again
W_C4 ==
  /\ jobs >= 2 /\ pc = "sync" /\ mgr.units = <<>>
  /\ <<"u4", None>> \in mgr.prototype_list
  /\ \E i \in Ids(protos) :
       /\ KeyOf(protos[i]) = <<"u4", None>>
       /\ protos[i].sdn_hostname = <<"ns", "2">>

\* the fields an update of a re-reported record keeps
OperatorOwned == {"device_type", "primary_ip4", "site", "tenant", "role"}

\* the record process_prototype computes for a unit, as saved when no record
\* has the unit's key
FreshRecord(unit) ==
  process_prototype([protos |-> <<>>, devices |-> devices, ips |-> ips],
                    mgr.controller, unit).protos[1]

\* C5: when a fetch pass reports a unit whose key a record already has, the
\* record keeps its device_type, primary_ip4, site, tenant and role, and every
\* other field takes the value computed from the report.
C5_OperatorFieldsKept ==
  [][ (pc = "sync" /\ mgr.units # <<>>) =>
        \A i \in Ids(protos) :
           KeyOf(protos[i]) = <<Head(mgr.units).unit.id,
                                Head(mgr.units).unit.serialNumber>> =>
             /\ \A f \in OperatorOwned : protos'[i][f] = protos[i][f]
             /\ \A f \in (DOMAIN protos[i]) \ OperatorOwned :
                   protos'[i][f] = FreshRecord(Head(mgr.units))[f]
    ]_vars

\* a record the operator gave a site and a device type the report does not
\* yield has been reported again in the running pass
W_C5 ==
  /\ pc = "sync" /\ edits = 1
  /\ \E i \in Ids(protos) :
       /\ KeyOf(protos[i]) \in mgr.prototype_list
       /\ protos[i].site = "site2"
       /\ protos[i].device_type = "dt1"
       /\ protos[i].sdn_device_type = "dt9"
       /\ protos[i].sync_status = DISCOVERED

\* C6: a status goes from Imported to Discovered only in the import attempt
\* of that prototype, when one of its validations failed; a fetch pass that
\* reports an Imported prototype again leaves it Imported.
C6_ImportedLeftOnlyByFailedValidation ==
  [][ \A i \in Ids(protos) :
        (protos[i].sync_status = IMPORTED /\ protos'[i].sync_status = DISCOVERED)
        => /\ pc = "import" /\ mgr.todo # <<>> /\ Head(mgr.todo) = i
           /\ ~PassedBoth(mgr', i)
           /\ i \notin mgr'.raised
    ]_vars

\* every record of the uuid was processed in the pass
WholeStackProcessed(m, uuid) ==
  \A i \in Ids(protos) : protos[i].instance_uuid = uuid => i \in m.processed

\* C7: at the end of an import pass in which no attempt raised, if every unit
\* of an instance_uuid was processed and the validation of one of them failed,
\* no unit of that instance_uuid is Imported.
C7_StackWideValidation ==
  (EndOfImportPass /\ mgr.raised = {}) =>
    \A i \in mgr.processed :
      ( /\ WholeStackProcessed(mgr, protos[i].instance_uuid)
        /\ ~PassedBoth(mgr, i) )
      => \A j \in Ids(protos) :
            protos[j].instance_uuid = protos[i].instance_uuid =>
              protos[j].sync_status # IMPORTED

\* the prototype lacks a required field, or has a related device and no
\* matching one
NotImportable(proto) ==
  \/ proto.sdn_hostname = <<>>
  \/ proto.role = None
  \/ proto.device_type = None
  \/ proto.tenant = None
  \/ proto.site = None
  \/ proto.serial = None
  \/ proto.related_netbox_device # 0 /\ proto.matching_netbox_device = 0

\* C8: at the end of an import pass a processed prototype that lacks a
\* required field, or has a related device and no matching one, is Discovered,
\* and a processed prototype whose two validations passed is Imported.
C8_ValidationGating ==
  EndOfImportPass =>
    \A pid \in mgr.processed :
      /\ NotImportable(protos[pid]) => protos[pid].sync_status = DISCOVERED
      /\ PassedBoth(mgr, pid) => protos[pid].sync_status = IMPORTED

\* a prototype whose device type the report does not yield was given one by
\* the operator and the pass has brought it to Imported, next to a processed
\* prototype that still lacks a field
W_C8 ==
  /\ EndOfImportPass /\ edits = 1
  /\ \E i, j \in mgr.processed :
       /\ protos[i].sdn_device_type = "dt9"
       /\ protos[i].device_type = "dt1"
       /\ protos[i].sync_status = IMPORTED
       /\ NotImportable(protos[j])

\* C9: an import attempt whose pre-check fails changes no device, interface or
\* address; it only sets the status of its prototype to Discovered.
C9_FailedPreCheckTouchesNothing ==
  [][ ( /\ pc = "import" /\ mgr.todo # <<>>
        /\ Head(mgr.todo) \notin mgr'.passed_pre )
      => /\ devices' = devices
         /\ ifaces' = ifaces
         /\ ips' = ips
         /\ protos' = [protos EXCEPT ![Head(mgr.todo)].sync_status = DISCOVERED]
    ]_vars

RECURSIVE SyncPass(_, _, _)
\* the loop of sync_sdn_controller_devices over the units, from tables db
SyncPass(db, c, units) ==
  IF units = <<>> THEN db
  ELSE LET r == process_prototype(db, c, Head(units))
       IN SyncPass([protos |-> r.protos, devices |-> r.devices, ips |-> r.ips],
                   c, Tail(units))

\* C10: at the end of a fetch pass, running the pass again on the same
\* controller data leaves every prototype record, every device and every
\* address as it is.
C10_FetchPassIdempotent ==
  (pc = "sync" /\ mgr.units = <<>>) =>
    SyncPass([protos |-> protos, devices |-> devices, ips |-> ips],
             mgr.controller,
             LoadUnits(split_device_list(mgr.report, mgr.uuid_list), mgr.report))
      = [protos |-> protos, devices |-> devices, ips |-> ips]


RECURSIVE SyncPassChanges(_, _, _)
\* the entries object_changelog writes during the loop of
\* sync_sdn_controller_devices over the units, from tables db
SyncPassChanges(db, c, units) ==
  IF units = <<>> THEN <<>>
  ELSE LET Then(r) ==
             r.changes \o SyncPassChanges([protos |-> r.protos, devices |-> r.devices,
                                           ips |-> r.ips], c, Tail(units))
       IN Then(process_prototype(db, c, Head(units)))

\* C11: at the end of a fetch pass, running the pass again on the same
\* controller data writes no change-log entry.
C11_SecondPassWritesNoChange ==
  (pc = "sync" /\ mgr.units = <<>>) =>
    SyncPassChanges([protos |-> protos, devices |-> devices, ips |-> ips],
                    mgr.controller,
                    LoadUnits(split_device_list(mgr.report, mgr.uuid_list), mgr.report))
      = <<>>

(***************************************************************************)
(* Failures of the controller during a fetch pass                          *)
(***************************************************************************)
\* C12: a failure of a per-unit query that is not a "not found" answer aborts
\* the fetch run: the step on which it happens ends the job and writes no
\* prototype, neither for the failing unit nor for a later one.
C12_FailureAbortsFetchRun ==
  [][(/\ pc = "sync"
      /\ mgr.units # <<>>
      /\ mgr'.fault.kind \in {"api", "other"})
       => (pc' = "idle" /\ protos' = protos)]_vars

\* what a turn has to leave in `interfaces` when the controller answers
\* "not found" to query q and the other queries of the unit succeed
KeptInterfaces(u, raw, q) ==
  IF q = "interfaces" THEN <<>> ELSE TurnQueries(u, raw, NoFault, NoLocals).interfaces

\* C13: when the controller answers "not found" to one per-unit query, only
\* that query counts as empty: the prototype of the unit is persisted from the
\* results of the unit's other queries and the run goes on with the next unit.
C13_NotFoundIsAnEmptyList ==
  [][(/\ pc = "sync"
      /\ mgr.units # <<>>
      /\ mgr'.fault.kind = "404")
       => (/\ pc' = "sync"
           /\ mgr'.units = Tail(mgr.units)
           /\ protos' = process_prototype(
                          [protos |-> protos, devices |-> devices, ips |-> ips],
                          mgr.controller,
                          LoadFrom(Head(mgr.units).unit,
                                   KeptInterfaces(Head(mgr.units).unit, UnitRaw(mgr),
                                                  mgr'.fault.query))).protos)]_vars

\* C14: an exception raised while one prototype is processed is caught and
\* logged as a failure and the run goes on with the remaining prototypes: in
\* the import pass the loop advances with a failure logged, in the fetch pass
\* the loop advances to the next unit.
C14_PrototypeExceptionIsCaught ==
  [][/\ (/\ pc = "import"
         /\ mgr.todo # <<>>
         /\ Head(mgr.todo) \in mgr'.raised)
          => (/\ pc' = "import"
              /\ mgr'.todo = Tail(mgr.todo)
              /\ mgr'.failed
              /\ <<"Unable to create prototype", Head(mgr.todo)>> \in mgr'.failures)
     /\ (/\ pc = "sync"
         /\ mgr.units # <<>>
         /\ mgr'.fault.kind = "other")
          => (/\ pc' = "sync"
              /\ mgr'.units = Tail(mgr.units))]_vars

(***************************************************************************)
(* What an import call returns                                             *)
(***************************************************************************)
\* C15: the import call returns false exactly when a failure was logged
\* during the run (an empty selection logs one), and a prototype the batch
\* imported earlier is still Imported after a later turn of the same batch,
\* whatever happens to the later prototype.
C15_ImportReturnsFailureFlag ==
  [][/\ (pc = "import" /\ pc' = "idle")
          => (job_success(mgr) <=> mgr.failures = {})
     /\ (pc = "import" /\ pc' = "import")
          => \A i \in mgr.processed \cap mgr.passed_post :
               protos[i].sync_status = IMPORTED
                 => protos'[i].sync_status = IMPORTED]_vars

\* an import batch is over, a failure was logged, and a prototype imported
\* before the one that failed is Imported
W_C15 ==
  /\ pc = "import"
  /\ mgr.todo = <<>>
  /\ ~job_success(mgr)
  /\ \E i, j \in mgr.processed :
       /\ ProtoBefore(protos, i, j)
       /\ i \in mgr.passed_post
       /\ protos[i].sync_status = IMPORTED
       /\ j \notin mgr.passed_post
       /\ \E message \in mgr.failures : message[2] = j

(***************************************************************************)
(* SdnManager.offset_handler: one call against an endpoint that holds      *)
(* pager.n records, numbered 1 .. n in the controller's order.             *)
(***************************************************************************)
\* the page size of the controller and of the handler (lines 179-180)
PageSize == 500

\* the most records an endpoint holds, and the counts studied: those around
\* a multiple of the page size
MaxRecords == 1502

RecordCounts ==
  {n \in 0..MaxRecords : n % PageSize <= 12 \/ n % PageSize >= PageSize - 5}

\* fetch_function at an offset: the records offset .. offset + PageSize - 1
\* the endpoint holds, none when the offset is past the last record
ServedPage(n, offset) ==
  [i \in 1..(IF offset > n THEN 0
             ELSE IF n - offset + 1 > PageSize THEN PageSize
             ELSE n - offset + 1) |-> offset + i - 1]

\* an advance that lands on the last record of the page just read
NextOffsetOverlapping(offset) == offset + PageSize - 1

\* line 180: offset += 500
NextOffset(offset) == offset + PageSize

\* one turn of the while loop (lines 166-182); the break is followed by the
\* return of line 184
FetchPage ==
  /\ ~pager.done
  /\ LET partial_list == ServedPage(pager.n, pager.offset)
     IN pager' =
          IF partial_list # <<>>
          THEN [pager EXCEPT
                  !.requests = Append(@, pager.offset),
                  !.data = @ \o partial_list,
                  !.done = Len(partial_list) < PageSize,
                  !.offset = IF Len(partial_list) < PageSize THEN @
                             ELSE NextOffset(@)]
          ELSE [pager EXCEPT !.requests = Append(@, pager.offset), !.done = TRUE]
  /\ UNCHANGED <<protos, devices, ifaces, ips, pc, mgr, jobs, edits, splitter,
                 merger,
                 remap,
                 bays,
                 subs,
                 addr,
                 ctrl>>

\* lines 163-164, for every record count studied
PageInit ==
  /\ protos = <<>>
  /\ devices = <<>>
  /\ ifaces = <<>>
  /\ ips = <<>>
  /\ pc = "idle"
  /\ mgr = NoMgr
  /\ jobs = 0
  /\ edits = 0
  /\ ctrl = NoCtrl
  /\ addr = NoCall
  /\ subs = NoSubs
  /\ bays = NoBays
  /\ remap = NoRemap
  /\ splitter = NoSplitter
  /\ merger = NoMerger
  /\ pager \in {[n |-> n, offset |-> 1, data |-> <<>>, requests |-> <<>>,
                 done |-> FALSE] : n \in RecordCounts}

PageNext == FetchPage

\* the loop is synchronous code: a turn that can be taken is taken
PageSpec == PageInit /\ [][PageNext]_vars /\ WF_vars(FetchPage)

\* the requests made so far are at offsets 1, 501, 1001, ... in that order
RequestsInOrder ==
  \A k \in DOMAIN pager.requests : pager.requests[k] = 1 + (k - 1) * PageSize

\* every page before the last one requested was full, and the loop is over
\* exactly when the last one requested was empty or short
StopsAtFirstShortPage ==
  /\ \A k \in DOMAIN pager.requests :
       k < Len(pager.requests)
         => Len(ServedPage(pager.n, pager.requests[k])) = PageSize
  /\ pager.done
       <=> /\ pager.requests # <<>>
           /\ Len(ServedPage(pager.n, pager.requests[Len(pager.requests)])) < PageSize

\* C16: offset_handler requests the offsets 1, 501, 1001, ... in that order,
\* stops after the first page that is empty or holds fewer than 500 records,
\* returns exactly the N records of the endpoint in the controller's order,
\* and terminates for every N.
C16_PaginatedFetch ==
  /\ [](/\ RequestsInOrder
        /\ StopsAtFirstShortPage
        /\ pager.done => pager.data = [i \in 1..pager.n |-> i])
  /\ <>pager.done

\* a call has returned the two full pages of an endpoint after a third, empty one
W_C16 ==
  /\ pager.done
  /\ pager.n = 2 * PageSize
  /\ pager.requests = <<1, 1 + PageSize, 1 + 2 * PageSize>>
  /\ Len(pager.data) = pager.n

(***************************************************************************)
(* SdnManager.split_device_list: one call on one raw device.               *)
(***************************************************************************)
\* the most serials a raw device lists, and the highest rank of a unit
MaxSerials == 3
MaxRank == 3

\* the serial lists of a raw device: up to MaxSerials distinct serials
SerialLists ==
  {s \in UNION {[1..n -> {"s1", "s2", "s3"}] : n \in 1..MaxSerials} :
     \A i, j \in DOMAIN s : s[i] = s[j] => i = j}

\* the raw devices studied: a stack or a chassis that ranks each of its
\* serials, of a type the splitter keeps or of a Nexus type
SplitDevices ==
  {[id |-> "u5", type |-> type, hostname |-> <<"st">>,
    serialNumber |-> serials,
    platformId |-> [k \in DOMAIN serials |-> "dt1"],
    managementIpAddress |-> ip, role |-> "ACCESS",
    stackSwitchInfo |->
      IF stacked
      THEN [k \in DOMAIN serials |->
              [serialNumber |-> serials[k], stackMemberNumber |-> ranks[serials[k]]]]
      ELSE <<>>,
    chassis |->
      IF stacked THEN <<>>
      ELSE [k \in DOMAIN serials |->
              [serialNumber |-> serials[k], index |-> ranks[serials[k]]]],
    interfaces |-> <<>>] :
     type \in {"Cisco Catalyst 9300", "Cisco Nexus 9000"},
     serials \in SerialLists,
     ip \in {"ip2", None},
     stacked \in BOOLEAN,
     ranks \in [{"s1", "s2", "s3"} -> 1..MaxRank]}

\* the call (lines 1288-1347)
Split ==
  /\ ~splitter.done
  /\ splitter' = [splitter EXCEPT
                    !.units = split_device_list(splitter.device_list,
                                                splitter.uuid_list),
                    !.done = TRUE]
  /\ UNCHANGED <<protos, devices, ifaces, ips, pc, mgr, jobs, edits, pager,
                 merger,
                 remap,
                 bays,
                 subs,
                 addr,
                 ctrl>>

\* device_list holds one raw device; prototype_uuid_list is empty (a fetch
\* job), names the device, or names another one (a fetch-and-sync job)
SplitInit ==
  /\ protos = <<>>
  /\ devices = <<>>
  /\ ifaces = <<>>
  /\ ips = <<>>
  /\ pc = "idle"
  /\ mgr = NoMgr
  /\ jobs = 0
  /\ edits = 0
  /\ ctrl = NoCtrl
  /\ addr = NoCall
  /\ subs = NoSubs
  /\ bays = NoBays
  /\ remap = NoRemap
  /\ pager = NoPager
  /\ merger = NoMerger
  /\ splitter \in {[device_list |-> <<d>>, uuid_list |-> uuid_list,
                    units |-> <<>>, done |-> FALSE] :
                     d \in SplitDevices, uuid_list \in {{}, {"u5"}, {"u6"}}}

SplitNext == Split

SplitSpec == SplitInit /\ [][SplitNext]_vars

\* the units of device d are one per listed serial, in the order of the list,
\* each with the rank the enumeration gives its serial, the hostname
\* "<host>-<rank>", is_multiple, total_serial N, and the management address
\* on the units ranked 1 only
UnitsPerSerial(d, units) ==
  /\ Len(units) = Len(d.serialNumber)
  /\ \A k \in DOMAIN units :
       LET rank == get_chassis_index(d)[d.serialNumber[k]]
       IN /\ units[k].serialNumber = d.serialNumber[k]
          /\ units[k].rank = rank
          /\ units[k].hostname = Append(d.hostname, NumTok(rank))
          /\ units[k].is_multiple
          /\ units[k].total_serial = Len(d.serialNumber)
          /\ units[k].managementIpAddress =
               IF rank = 1 THEN d.managementIpAddress ELSE None

\* the splitter passes over the device: a Nexus, or a device a fetch-and-sync
\* job did not select (lines 1290-1295)
SkippedBySplitter(d, uuid_list) ==
  \/ IsNexus(d.type)
  \/ uuid_list # {} /\ d.id \notin uuid_list

\* C17 as stated: a raw device listing N >= 2 serials, each ranked by the
\* stack (else chassis) enumeration, is split in N units, one per serial,
\* with its rank, hostname "<host>-<rank>", is_multiple, total_units N, the
\* management IP on the unit ranked 1 only.
C17_SplitEveryDevice ==
  (splitter.done /\ splitter.device_list # <<>>
     /\ Len(splitter.device_list[1].serialNumber) >= 2)
    => UnitsPerSerial(splitter.device_list[1], splitter.units)

\* C17, amended: the same for every raw device the splitter does not pass
\* over; a Nexus device and a device outside the selection of a
\* fetch-and-sync job give no unit at all.
C17_SplitUnits ==
  (splitter.done /\ splitter.device_list # <<>>
     /\ Len(splitter.device_list[1].serialNumber) >= 2)
    => IF SkippedBySplitter(splitter.device_list[1], splitter.uuid_list)
       THEN splitter.units = <<>>
       ELSE UnitsPerSerial(splitter.device_list[1], splitter.units)

\* a device of three serials whose enumeration ranks the second serial first
\* was split, and the address is on that unit
W_C17 ==
  /\ splitter.done
  /\ Len(splitter.units) = 3
  /\ splitter.units[2].rank = 1
  /\ splitter.units[2].managementIpAddress = "ip2"
  /\ splitter.units[1].rank = 3
  /\ splitter.units[1].managementIpAddress = None

(***************************************************************************)
(* Fetch jobs alone: no operator edit, no import of a selection.  The      *)
(* controller can also report the stack with the ranks of its members      *)
(* exchanged, and a router of a model the catalog has no device type for.  *)
(***************************************************************************)
RawStSwapped ==
  [RawSt EXCEPT !.stackSwitchInfo =
                   <<[serialNumber |-> "s2", stackMemberNumber |-> 2],
                     [serialNumber |-> "s3", stackMemberNumber |-> 1]>>]

RawRt9 == [RawRt EXCEPT !.platformId = <<"dt9">>]

FetchReports(c) ==
  IF c = "c1" THEN Reports(c) \cup {<<RawStSwapped>>}
  ELSE Reports(c) \cup {<<RawRt9>>}

FetchNext ==
  \/ \E c \in Controllers : \E report \in FetchReports(c) : StartFetch(c, report)
  \/ SyncUnit
  \/ CheckForDeleted
  \/ \E exc \in Raises : ImportOne(exc)
  \/ Finish

FetchSpec == Init /\ [][FetchNext]_vars

\* the prototype holds the management IP of its chassis
HoldsManagementIp(proto) ==
  proto.sdn_management_ip # NoAddr \/ proto.primary_ip4 # 0

\* C18: in the states fetch jobs alone reach, a prototype that holds the
\* management IP of its chassis (a non-empty sdn_management_ip or a primary
\* IPv4) has stack_index "1", also after the controller reports the same
\* serials with other ranks.
C18_OnlyRankOneHoldsManagementIp ==
  \A i \in Ids(protos) :
    HoldsManagementIp(protos[i]) => protos[i].stack_index = <<1>>

(***************************************************************************)
(* The score of a fetch pass                                               *)
(***************************************************************************)
\* the score of the record proto of a pass that left the device table devs,
\* counted from what the record and the table show: 5 for a matching device,
\* 1 for its serial, 1 for its name, 1 for a primary IPv4 (resolved or created
\* whenever the unit has a management address), 1 for a device type the
\* reported model resolves to, 1 for a site (the matching device's, else the
\* one of the prefix of the management address)
ScoreAsStated(proto, devs) ==
  LET m == proto.matching_netbox_device
  IN  (IF m # 0 THEN 5 ELSE 0)
    + (IF m # 0 /\ devs[m].serial = proto.serial THEN 1 ELSE 0)
    + (IF m # 0 /\ devs[m].name = proto.sdn_hostname THEN 1 ELSE 0)
    + (IF proto.sdn_management_ip # NoAddr THEN 1 ELSE 0)
    + (IF DeviceTypeOf(proto.sdn_device_type) # None THEN 1 ELSE 0)
    + (IF m # 0 THEN (IF devs[m].site # None THEN 1 ELSE 0)
       ELSE IF proto.sdn_management_ip # NoAddr
               /\ get_site_from_prefix(proto.sdn_management_ip.host) # None
            THEN 1 ELSE 0)

\* C19: the score a fetch pass stores for a unit is 5 if a matching device
\* exists, plus 1 each for an equal serial, an equal hostname, a primary IPv4
\* resolved or created, a device type resolved and a site resolved.
C19_ScoreIsAdditive ==
  [][(pc = "sync" /\ mgr.units # <<>> /\ pc' = "sync")
       => LET pid == process_prototype(
                       [protos |-> protos, devices |-> devices, ips |-> ips],
                       mgr.controller, Head(mgr.units)).pid
          IN protos'[pid].score = ScoreAsStated(protos'[pid], devices')]_vars

\* a pass has scored one unit 10 and another unit 0
W_C19 ==
  /\ pc = "sync"
  /\ \E i, j \in Ids(protos) :
       /\ protos[i].score = 10
       /\ protos[i].matching_netbox_device # 0
       /\ protos[j].score = 0
       /\ protos[j].matching_netbox_device = 0

(***************************************************************************)
(* The merges of import_fetched_elements_in_netbox: reported attributes    *)
(* into an inventory object that exists.  None stands for an attribute     *)
(* that is None or "", 0 for a speed that is None or 0: the values that    *)
(* are false in the conditions of the code.                                *)
(***************************************************************************)
\* `not existing_value`
IsEmpty(attr, value) == IF attr = "speed" THEN value = 0 ELSE value = None

\* a loop that writes every reported value
merge_attrs_overwriting(object, attrs) ==
  [object   |-> [a \in DOMAIN object |->
                   IF a \in DOMAIN attrs THEN attrs[a] ELSE object[a]],
   warnings |-> {a \in DOMAIN attrs :
                   ~IsEmpty(a, object[a]) /\ object[a] # attrs[a]}]

\* the loop of lines 787-797, 896-905 and 973-982: a warning for a value
\* that differs from the existing one, the value for an empty attribute
merge_attrs(object, attrs) ==
  [object   |-> [a \in DOMAIN object |->
                   IF a \in DOMAIN attrs /\ IsEmpty(a, object[a])
                   THEN attrs[a] ELSE object[a]],
   warnings |-> {a \in DOMAIN attrs :
                   ~IsEmpty(a, object[a]) /\ object[a] # attrs[a]}]

\* lines 754-761: iface_attrs, from the interface the controller reported
speed_of(speed) ==
  CASE speed = "1000000" -> 1000000
    [] speed = "100000" -> 100000
    [] OTHER -> 0

duplex_of(duplex) ==
  CASE duplex = "HalfDuplex" -> "half"
    [] duplex = "FullDuplex" -> "full"
    [] duplex = "AutoNegotiate" -> "auto"
    [] OTHER -> None

iface_attrs(iface_data) ==
  [speed |-> speed_of(iface_data.speed),
   description |-> iface_data.description,
   duplex |-> duplex_of(iface_data.duplex)]

\* lines 947-950: ModuleType by model, else by part number
ModuleTypeOf(partNumber) == IF partNumber = "pn1" THEN "mt1" ELSE None

\* the merges studied, as the existing object and what is reported for it
DeviceMerges ==
  {[kind |-> "device",
    object |-> [name |-> <<"sw">>, role |-> role, tenant |-> tenant, site |-> site,
                serial |-> serial, device_type |-> device_type],
    reported |-> [sdn_hostname |-> name, role |-> r.role, tenant |-> r.tenant,
                  site |-> r.site, serial |-> r.serial,
                  device_type |-> r.device_type]] :
     role \in {None, "role1"}, tenant \in {None, "ten1"}, site \in {None, "site1"},
     serial \in {None, "s1"}, device_type \in {None, "dt1"},
     name \in {<<"sw">>, <<"sw", "1">>},
     r \in [role : {None, "role1", "role2"}, tenant : {None, "ten1", "ten2"},
            site : {None, "site1", "site2"}, serial : {None, "s1", "s2"},
            device_type : {None, "dt1", "dt2"}]}

InterfaceMerges ==
  {[kind |-> "interface", object |-> object, reported |-> reported] :
     object \in [speed : {0, 1000000}, description : {None, "uplink"},
                 duplex : {None, "full"}],
     reported \in [speed : {None, "1000000", "100000"},
                   description : {None, "uplink", "core"},
                   duplex : {None, "FullDuplex", "HalfDuplex"}]}

ModuleBayMerges ==
  {[kind |-> "module_bay", object |-> object, reported |-> reported] :
     object \in [description : {None, "slot"}],
     reported \in [description : {None, "slot", "bay"}]}

ModuleMerges ==
  {[kind |-> "module", object |-> object, reported |-> reported] :
     object \in [module_type : {"mt1", "mt2"}, serial : {None, "m1"},
                 description : {None, "psu"}],
     reported \in [partNumber : {"pn1", "pn9"}, serialNumber : {None, "m1", "m2"},
                   description : {None, "psu", "fan"}]}

\* the state of a merge: attrs is what the code compares the object with,
\* result the object it saves, warnings the attributes log_warning named
Merged(attrs, result, warnings) ==
  [merger EXCEPT !.attrs = attrs, !.result = result, !.warnings = warnings,
                 !.done = TRUE]

\* lines 1150-1160 and 1172-1175 on a matching device: the serial is filled
\* when empty, process_device_attributes (602-632) and log_mismatch name what
\* differs, the device type of the prototype is written
MergeDevice ==
  /\ ~merger.done
  /\ merger.kind = "device"
  /\ LET new_device == merger.object
         proto == merger.reported
         attrs == [name |-> proto.sdn_hostname, role |-> proto.role,
                   device_type |-> proto.device_type, tenant |-> proto.tenant,
                   site |-> proto.site, serial |-> proto.serial]
         \* lines 1151-1154
         filled == IF new_device.serial = None
                   THEN [new_device EXCEPT !.serial = proto.serial] ELSE new_device
     IN merger' = Merged(attrs,
                         \* lines 1172-1174
                         IF proto.device_type # None
                         THEN [filled EXCEPT !.device_type = proto.device_type]
                         ELSE filled,
                         \* lines 1156-1159
                         {a \in DOMAIN attrs : filled[a] # attrs[a]})
  /\ UNCHANGED <<protos, devices, ifaces, ips, pc, mgr, jobs, edits, pager, splitter,
                 remap,
                 bays,
                 subs,
                 addr,
                 ctrl>>

\* lines 754-797 on an interface the device has
MergeInterface ==
  /\ ~merger.done
  /\ merger.kind = "interface"
  /\ LET Loop(attrs, m) == Merged(attrs, m.object, m.warnings)
     IN merger' = Loop(iface_attrs(merger.reported),
                       merge_attrs(merger.object, iface_attrs(merger.reported)))
  /\ UNCHANGED <<protos, devices, ifaces, ips, pc, mgr, jobs, edits, pager, splitter,
                 remap,
                 bays,
                 subs,
                 addr,
                 ctrl>>

\* lines 861-908 on a module bay the device has
MergeModuleBay ==
  /\ ~merger.done
  /\ merger.kind = "module_bay"
  /\ LET Loop(attrs, m) == Merged(attrs, m.object, m.warnings)
     IN merger' = Loop([description |-> merger.reported.description],
                       merge_attrs(merger.object,
                                   [description |-> merger.reported.description]))
  /\ UNCHANGED <<protos, devices, ifaces, ips, pc, mgr, jobs, edits, pager, splitter,
                 remap,
                 bays,
                 subs,
                 addr,
                 ctrl>>

\* lines 944-989 on the module of a module bay: nothing is done for a part
\* number that is no module type
MergeModule ==
  /\ ~merger.done
  /\ merger.kind = "module"
  /\ LET Loop(attrs, m) == Merged(attrs, m.object, m.warnings)
         module_attrs == [module_type |-> ModuleTypeOf(merger.reported.partNumber),
                          serial |-> merger.reported.serialNumber,
                          description |-> merger.reported.description]
     IN merger' = IF ModuleTypeOf(merger.reported.partNumber) = None
                  THEN Merged(<<>>, merger.object, {})
                  ELSE Loop(module_attrs, merge_attrs(merger.object, module_attrs))
  /\ UNCHANGED <<protos, devices, ifaces, ips, pc, mgr, jobs, edits, pager, splitter,
                 remap,
                 bays,
                 subs,
                 addr,
                 ctrl>>

MergeInit ==
  /\ protos = <<>>
  /\ devices = <<>>
  /\ ifaces = <<>>
  /\ ips = <<>>
  /\ pc = "idle"
  /\ mgr = NoMgr
  /\ jobs = 0
  /\ edits = 0
  /\ ctrl = NoCtrl
  /\ addr = NoCall
  /\ subs = NoSubs
  /\ bays = NoBays
  /\ remap = NoRemap
  /\ pager = NoPager
  /\ splitter = NoSplitter
  /\ merger \in {[kind |-> m.kind, object |-> m.object, reported |-> m.reported,
                  attrs |-> <<>>, result |-> m.object, warnings |-> {},
                  done |-> FALSE] :
                   m \in DeviceMerges \cup InterfaceMerges \cup ModuleBayMerges
                           \cup ModuleMerges}

MergeNext ==
  \/ MergeDevice
  \/ MergeInterface
  \/ MergeModuleBay
  \/ MergeModule

MergeSpec == MergeInit /\ [][MergeNext]_vars

\* the attributes the import has to keep, per kind of object
KeptAttributes(kind) ==
  CASE kind = "device" -> {"name", "role", "tenant", "site", "serial"}
    [] kind = "interface" -> {"speed", "description", "duplex"}
    [] kind = "module_bay" -> {"description"}
    [] kind = "module" -> {"module_type", "serial", "description"}
    [] OTHER -> {}

\* C20: import never overwrites an existing non-empty value with a differing
\* reported one: the name, role, tenant, site and non-empty serial of a
\* matching device, the speed, description and duplex of an interface, the
\* description of a module bay and the type, serial and description of a
\* module are as before and a warning names the attribute; only an empty
\* value is filled.
C20_ImportKeepsExistingValues ==
  (merger.done /\ merger.kind # "none" /\ merger.attrs # <<>>)
    => \A a \in KeptAttributes(merger.kind) :
         /\ ~IsEmpty(a, merger.object[a])
              => /\ merger.result[a] = merger.object[a]
                 /\ merger.object[a] # merger.attrs[a] => a \in merger.warnings
         /\ merger.result[a] # merger.object[a] => IsEmpty(a, merger.object[a])

\* an interface whose description differs from the reported one and whose
\* speed was empty was merged: the description is kept with a warning, the
\* speed is filled
W_C20 ==
  /\ merger.done
  /\ merger.kind = "interface"
  /\ merger.object.description = "uplink"
  /\ merger.attrs.description = "core"
  /\ merger.result.description = "uplink"
  /\ "description" \in merger.warnings
  /\ merger.object.speed = 0
  /\ merger.result.speed = 1000000

(***************************************************************************)
(* SdnManager.remap_interfaces: one call on a device that has one port     *)
(* under several naming forms.  A name is the form it is written in:       *)
(* "canon" GigabitEthernet1/0/1, "abbr" Gi1/0/1, "inter" GigE1/0/1.  A row *)
(* of remap.rows is an Interface; alive is false once it is deleted.       *)
(***************************************************************************)
NameForms == {"abbr", "inter", "canon"}

\* the order of Interface.Meta.ordering on the three forms of one port
FormRank(form) == CASE form = "abbr" -> 1 [] form = "inter" -> 2 [] OTHER -> 3

\* lines 1627-1631 applied to a name: canonical_interface_name,
\* abbreviated_interface_name, cisco_intermediate_interface_name (which only
\* rewrites a canonical name)
transformations(form) ==
  <<"canon", "abbr", IF form = "canon" THEN "inter" ELSE form>>

\* Interface.objects.filter(device=..., name=...).first(): the pk, 0 for None
InterfaceNamed(rows, form) ==
  IF \E i \in DOMAIN rows : rows[i].alive /\ rows[i].name = form
  THEN CHOOSE i \in DOMAIN rows : rows[i].alive /\ rows[i].name = form
  ELSE 0

\* lines 1637-1647 for one actual_interface: the first transformation that
\* names another interface of the device, 0 when none does
MatchOf(rows, i) ==
  LET t == transformations(rows[i].name)
      hit(k) == InterfaceNamed(rows, t[k]) # 0 /\ InterfaceNamed(rows, t[k]) # i
  IN IF hit(1) THEN InterfaceNamed(rows, t[1])
     ELSE IF hit(2) THEN InterfaceNamed(rows, t[2])
     ELSE IF hit(3) THEN InterfaceNamed(rows, t[3])
     ELSE 0

\* lines 1633-1647: all_matched_interfaces, over the interfaces in their order
RECURSIVE MatchedPairs(_, _, _)
MatchedPairs(rows, todo, processed_interfaces) ==
  IF todo = <<>> THEN <<>>
  ELSE IF Head(todo) \in processed_interfaces \/ MatchOf(rows, Head(todo)) = 0
  THEN MatchedPairs(rows, Tail(todo), processed_interfaces)
  ELSE <<[first |-> Head(todo), second |-> MatchOf(rows, Head(todo))]>>
         \o MatchedPairs(rows, Tail(todo),
                         processed_interfaces
                           \cup {Head(todo), MatchOf(rows, Head(todo))})

\* the Interface object of a row, as the loop holds it
ObjectOf(rows, i) ==
  [pk |-> i, name |-> rows[i].name, cable |-> rows[i].cable,
   module |-> rows[i].module]

\* Model.save() of an object: an INSERT for an object without pk or whose row
\* is gone, an UPDATE otherwise
SaveObject(rows, o) ==
  IF o.pk = 0
  THEN Append(rows, [name |-> o.name, cable |-> o.cable, module |-> o.module,
                     alive |-> TRUE])
  ELSE [rows EXCEPT ![o.pk] = [name |-> o.name, cable |-> o.cable,
                               module |-> o.module, alive |-> TRUE]]

\* merge_duplicate_interfaces (lines 1594-1615) on the pair st.o: keep is the
\* place of a_interface in the pair.  The table of line 1608 has a key for the
\* port when the controller reported it; the KeyError is caught at 1614.
\* delete() leaves its object without pk, so a later save() of it inserts.
merge_duplicate_interfaces(st, keep, with_module) ==
  LET a == IF with_module
           THEN [st.o[keep] EXCEPT !.module = st.o[3 - keep].module]
           ELSE st.o[keep]
      b == st.o[3 - keep]
      Deleted(rows) == IF b.pk = 0 THEN rows ELSE [rows EXCEPT ![b.pk].alive = FALSE]
      Saved(o) ==
        [st EXCEPT
           !.rows = SaveObject(Deleted(@), o),
           !.o[keep] = [o EXCEPT !.pk = IF o.pk = 0 THEN Len(st.rows) + 1 ELSE @],
           !.o[3 - keep].pk = 0]
  IN IF st.reported = None
     THEN [st EXCEPT !.o[keep] = a]
     ELSE Saved([a EXCEPT !.name = st.reported])

\* lines 1649-1660 for one matched pair: four tests in a row, each on the
\* objects as the tests before left them
MergePair(rows, reported, pair) ==
  LET InPrototype(name) == reported # None /\ name = reported
      Fourth(st) ==
        IF InPrototype(st.o[2].name) /\ ~InPrototype(st.o[1].name)
        THEN merge_duplicate_interfaces(st, 1, FALSE) ELSE st
      Third(st) ==
        Fourth(IF InPrototype(st.o[1].name) /\ ~InPrototype(st.o[2].name)
               THEN merge_duplicate_interfaces(st, 2, FALSE) ELSE st)
      Second(st) ==
        Third(IF /\ st.o[1].module # 0 /\ ~st.o[1].cable
                 /\ st.o[2].cable /\ st.o[2].module = 0
              THEN merge_duplicate_interfaces(st, 2, TRUE) ELSE st)
      First(st) ==
        Second(IF /\ st.o[1].cable /\ st.o[1].module = 0
                  /\ st.o[2].module # 0 /\ ~st.o[2].cable
               THEN merge_duplicate_interfaces(st, 1, TRUE) ELSE st)
  IN First([rows |-> rows, reported |-> reported,
            o |-> <<ObjectOf(rows, pair.first), ObjectOf(rows, pair.second)>>]).rows

RECURSIVE MergePairs(_, _, _)
MergePairs(rows, reported, pairs) ==
  IF pairs = <<>> THEN rows
  ELSE MergePairs(MergePair(rows, reported, Head(pairs)), reported, Tail(pairs))

\* the call (lines 1617-1661)
Remap ==
  /\ ~remap.done
  /\ LET pairs == MatchedPairs(remap.rows, [i \in DOMAIN remap.rows |-> i], {})
     IN remap' = [remap EXCEPT !.pairs = pairs,
                               !.rows = MergePairs(remap.rows, remap.reported, pairs),
                               !.done = TRUE]
  /\ UNCHANGED <<protos, devices, ifaces, ips, pc, mgr, jobs, edits, pager, splitter,
                 merger,
                 bays,
                 subs,
                 addr,
                 ctrl>>

\* the device has the port under two forms, in the order of their names; each
\* interface has a cable or not and a module (its id) or not; the controller
\* reports the port under one of the forms or not at all
RemapInit ==
  /\ protos = <<>>
  /\ devices = <<>>
  /\ ifaces = <<>>
  /\ ips = <<>>
  /\ pc = "idle"
  /\ mgr = NoMgr
  /\ jobs = 0
  /\ edits = 0
  /\ ctrl = NoCtrl
  /\ addr = NoCall
  /\ subs = NoSubs
  /\ bays = NoBays
  /\ pager = NoPager
  /\ splitter = NoSplitter
  /\ merger = NoMerger
  /\ remap \in {[rows |-> <<[name |-> f1, cable |-> c1, module |-> m1, alive |-> TRUE],
                            [name |-> f2, cable |-> c2, module |-> m2, alive |-> TRUE]>>,
                 reported |-> reported, pairs |-> <<>>, done |-> FALSE] :
                  f1 \in NameForms, f2 \in NameForms, c1 \in BOOLEAN, c2 \in BOOLEAN,
                  m1 \in {0, 1}, m2 \in {0, 2}, reported \in NameForms \cup {None}}
  /\ FormRank(remap.rows[1].name) < FormRank(remap.rows[2].name)

RemapNext == Remap

RemapSpec == RemapInit /\ [][RemapNext]_vars

\* C21: after the reconciler has processed a matched pair of a cabled record
\* without module and a module record without cable, exactly one record of the
\* pair remains: the cabled one, with its cable, the module of the other one
\* and the name the controller reported.
C21_CabledRecordSurvives ==
  [][\A k \in {1, 2} :
       (/\ ~remap.done /\ remap'.done
        /\ remap'.pairs # <<>>
        /\ remap.reported # None
        /\ remap.rows[k].cable /\ remap.rows[k].module = 0
        /\ ~remap.rows[3 - k].cable /\ remap.rows[3 - k].module # 0)
         => /\ {i \in DOMAIN remap'.rows : remap'.rows[i].alive} = {k}
            /\ remap'.rows[k] = [name |-> remap.reported, cable |-> TRUE,
                                 module |-> remap.rows[3 - k].module,
                                 alive |-> TRUE]]_vars

(***************************************************************************)
(* process_module_bays: one call on a device.  A bay name is a text, the   *)
(* case it is written in and the number it ends with; the position of a    *)
(* bay is a number, 0 for no position.                                     *)
(***************************************************************************)
BayTexts == {"Switch 1 Module", "Switch 2 Module"}
MaxSlot == 2
MaxReportedBays == 2

\* the names extract_module_positions gives (line 1573)
ReportedBayNames == [text : BayTexts, lower : {FALSE}, num : 1..MaxSlot]

\* the names a bay of the inventory can have
BayNames == [text : BayTexts, lower : BOOLEAN, num : 1..MaxSlot]

\* name__iexact
NameIExact(a, b) == a.text = b.text /\ a.num = b.num

\* the first row of a set of rows, 0 for None
FirstBay(S) == IF S = {} THEN 0 ELSE CHOOSE i \in S : \A j \in S : i <= j

\* lines 861-908 for one reported bay: the device's bay of that name, else
\* the one at the position the name ends with, else the one whose name ends
\* with that position, renamed; else a new bay
ProcessBay(rows, module_bay_name) ==
  LET position  == module_bay_name.num
      by_name   == FirstBay({i \in DOMAIN rows : NameIExact(rows[i].name, module_bay_name)})
      by_pos    == FirstBay({i \in DOMAIN rows : rows[i].position = position})
      by_suffix == FirstBay({i \in DOMAIN rows : rows[i].name.num = position})
  IN IF by_name # 0 THEN rows
     ELSE IF by_pos # 0 THEN [rows EXCEPT ![by_pos].name = module_bay_name]
     ELSE IF by_suffix # 0 THEN [rows EXCEPT ![by_suffix].name = module_bay_name]
     ELSE Append(rows, [name |-> module_bay_name, position |-> position])

RECURSIVE ProcessBays(_, _)
ProcessBays(rows, names) ==
  IF names = <<>> THEN rows
  ELSE ProcessBays(ProcessBay(rows, Head(names)), Tail(names))

\* the call (lines 856-913); module_bay_count is written after each bay
\* (lines 911-912)
ProcessModuleBays ==
  /\ ~bays.done
  /\ LET Done(rows) ==
           [bays EXCEPT !.rows = rows,
                        !.module_bay_count = IF bays.reported = <<>> THEN @
                                             ELSE Len(rows),
                        !.done = TRUE]
     IN bays' = Done(ProcessBays(bays.rows, bays.reported))
  /\ UNCHANGED <<protos, devices, ifaces, ips, pc, mgr, jobs, edits, pager, splitter,
                 merger, remap,
                 subs,
                 addr,
                 ctrl>>

\* the device is new (its template bays were deleted, lines 1143-1146) or has
\* one bay; the prototype reports up to MaxReportedBays bays, under names
\* that differ
BaysInit ==
  /\ protos = <<>>
  /\ devices = <<>>
  /\ ifaces = <<>>
  /\ ips = <<>>
  /\ pc = "idle"
  /\ mgr = NoMgr
  /\ jobs = 0
  /\ edits = 0
  /\ ctrl = NoCtrl
  /\ addr = NoCall
  /\ subs = NoSubs
  /\ pager = NoPager
  /\ splitter = NoSplitter
  /\ merger = NoMerger
  /\ remap = NoRemap
  /\ bays \in {[rows |-> rows, reported |-> reported, fresh |-> rows = <<>>,
                module_bay_count |-> Len(rows), done |-> FALSE] :
                 rows \in {<<>>} \cup {<<[name |-> n, position |-> p]>> :
                                         n \in BayNames, p \in 0..MaxSlot},
                 reported \in {r \in UNION {[1..k -> ReportedBayNames] :
                                              k \in 0..MaxReportedBays} :
                                 \A i, j \in DOMAIN r : r[i] = r[j] => i = j}}

BaysNext == ProcessModuleBays

BaysSpec == BaysInit /\ [][BaysNext]_vars

\* C22: after the module-bay step the device has a module bay of exactly
\* each reported name, a device created by this import has no other bay, and
\* the stored bay count is the number of bays of the device.
C22_ReportedBaysExist ==
  (bays.done /\ bays # NoBays)
    => /\ \A k \in DOMAIN bays.reported :
            \E i \in DOMAIN bays.rows : bays.rows[i].name = bays.reported[k]
       /\ bays.fresh
            => \A i \in DOMAIN bays.rows :
                 \E k \in DOMAIN bays.reported : bays.rows[i].name = bays.reported[k]
       /\ bays.module_bay_count = Len(bays.rows)

(***************************************************************************)
(* The sub-objects of one prototype: process_module_bays, then             *)
(* process_interfaces (lines 1176-1177).  An item is a module bay with its *)
(* module or an interface with its IP address; raises tells where an       *)
(* exception strikes: nowhere, in the item's own statements, or in the     *)
(* statements of its module or address.                                    *)
(***************************************************************************)
MaxSubObjects == 3

SubKinds == {"module_bay", "interface"}
SubRaises == {"none", "own", "child"}
SubItems == [kind : SubKinds, raises : SubRaises]

\* script.log_warning: the message is logged, the script is not marked failed
log_warning(m, message) == [m EXCEPT !.warnings = @ \cup {message}]

\* process_module for the module of bay k: its handler logs a warning
\* (lines 994-999)
process_module(m, k, raises) ==
  IF raises = "child" THEN log_warning(m, <<"Unable to create module", k>>) ELSE m

\* one turn of the loop of process_module_bays (lines 860-921)
ModuleBayTurn(m, k, raises) ==
  IF raises = "own" THEN log_failure(m, <<"Unable to create module bay", k>>)
  ELSE process_module(m, k, raises)

\* process_ip_addresses for the address of interface k: its handler logs a
\* failure (lines 1098-1102)
SubAddress(m, k, raises) ==
  IF raises = "child" THEN log_failure(m, <<"Unable to create ip address", k>>) ELSE m

\* one turn of the loop of process_interfaces (lines 756-834)
InterfaceTurn(m, k, raises) ==
  IF raises = "own" THEN log_failure(m, <<"Unable to create interface", k>>)
  ELSE SubAddress(m, k, raises)

ProcessModuleBay ==
  /\ ~subs.done
  /\ subs.at \in DOMAIN subs.items
  /\ subs.items[subs.at].kind = "module_bay"
  /\ subs' = ModuleBayTurn([subs EXCEPT !.at = @ + 1, !.handled = @ \cup {subs.at}],
                           subs.at, subs.items[subs.at].raises)
  /\ UNCHANGED <<protos, devices, ifaces, ips, pc, mgr, jobs, edits, pager, splitter,
                 merger, remap, bays,
                 addr,
                 ctrl>>

ProcessInterfaceTurn ==
  /\ ~subs.done
  /\ subs.at \in DOMAIN subs.items
  /\ subs.items[subs.at].kind = "interface"
  /\ subs' = InterfaceTurn([subs EXCEPT !.at = @ + 1, !.handled = @ \cup {subs.at}],
                           subs.at, subs.items[subs.at].raises)
  /\ UNCHANGED <<protos, devices, ifaces, ips, pc, mgr, jobs, edits, pager, splitter,
                 merger, remap, bays,
                 addr,
                 ctrl>>

\* line 1200: the import returns
ReturnFromImport ==
  /\ ~subs.done
  /\ subs.at \notin DOMAIN subs.items
  /\ subs' = [subs EXCEPT !.done = TRUE, !.result = job_success(subs)]
  /\ UNCHANGED <<protos, devices, ifaces, ips, pc, mgr, jobs, edits, pager, splitter,
                 merger, remap, bays,
                 addr,
                 ctrl>>

\* the module bays come before the interfaces
SubsInit ==
  /\ protos = <<>>
  /\ devices = <<>>
  /\ ifaces = <<>>
  /\ ips = <<>>
  /\ pc = "idle"
  /\ mgr = NoMgr
  /\ jobs = 0
  /\ edits = 0
  /\ ctrl = NoCtrl
  /\ addr = NoCall
  /\ pager = NoPager
  /\ splitter = NoSplitter
  /\ merger = NoMerger
  /\ remap = NoRemap
  /\ bays = NoBays
  /\ subs \in {[NoSubs EXCEPT !.items = items, !.done = FALSE] :
                 items \in {s \in UNION {[1..n -> SubItems] : n \in 1..MaxSubObjects} :
                              \A i, j \in DOMAIN s :
                                 (i < j /\ s[i].kind = "interface")
                                    => s[j].kind = "interface"}}

SubsNext ==
  \/ ProcessModuleBay
  \/ ProcessInterfaceTurn
  \/ ReturnFromImport

SubsSpec == SubsInit /\ [][SubsNext]_vars

\* the failure the claim expects for an exception in item k
FailureNaming(item, k) ==
  IF item.kind = "module_bay"
  THEN IF item.raises = "own" THEN <<"Unable to create module bay", k>>
       ELSE <<"Unable to create module", k>>
  ELSE IF item.raises = "own" THEN <<"Unable to create interface", k>>
       ELSE <<"Unable to create ip address", k>>

\* C23: an exception raised while one module bay, module, interface or IP
\* address is processed is logged as a failure that names the sub-object, so
\* that the import returns false, and the other sub-objects of the prototype
\* are still processed.
C23_SubObjectFailureIsLogged ==
  (subs.done /\ subs # NoSubs)
    => /\ subs.handled = DOMAIN subs.items
       /\ \A k \in DOMAIN subs.items :
            subs.items[k].raises # "none"
              => /\ FailureNaming(subs.items[k], k) \in subs.failures
                 /\ ~subs.result

(***************************************************************************)
(* Fetch jobs on the reports of FetchReports, with the operator editing    *)
(* prototypes between the jobs.                                            *)
(***************************************************************************)
StackNext ==
  \/ \E c \in Controllers : \E report \in FetchReports(c) : StartFetch(c, report)
  \/ SyncUnit
  \/ CheckForDeleted
  \/ \E exc \in Raises : ImportOne(exc)
  \/ Finish
  \/ \E id_list \in EditSelections, patch \in Patches : OperatorEdit(id_list, patch)

StackSpec == Init /\ [][StackNext]_vars

\* the prototypes that have a matching device
Matched == {pid \in Ids(protos) : protos[pid].matching_netbox_device # 0}

AddrHosts == {"ip1", "ip2"}

AddrDevice(primary_ip4) ==
  [name |-> <<"sw">>, serial |-> None, device_type |-> "dt1", role |-> "role1",
   site |-> "site1", tenant |-> "ten1", primary_ip4 |-> primary_ip4]

\* the call (lines 1039-1102)
AssignAddress ==
  /\ ~addr.done
  /\ LET Called(r) ==
           /\ devices' = r.devices
           /\ ips' = r.ips
           /\ addr' = [addr EXCEPT !.done = TRUE, !.log = r.log]
     IN Called(process_ip_addresses(
                 [protos |-> protos, devices |-> devices, ifaces |-> ifaces,
                  ips |-> ips, log |-> {}],
                 [raw_data |-> [managementIpAddress |-> addr.management]],
                 addr.iface_data, addr.interface))
  /\ UNCHANGED <<protos, ifaces, pc, mgr, jobs, edits, pager, splitter, merger, remap,
                 bays, subs,
                 ctrl>>

\* the address object, if there is one, is "ip1/24", assigned to nothing or to
\* one of the interfaces, and the primary IPv4 of at most one device
AddrInit ==
  /\ protos = <<>>
  /\ ifaces = <<[device |-> 1, name |-> Gi(1, 0, 1), type |-> "1000base-t",
                 cable |-> FALSE, module |-> FALSE],
                [device |-> 2, name |-> Gi(1, 0, 1), type |-> "1000base-t",
                 cable |-> FALSE, module |-> FALSE]>>
  /\ ips \in {<<>>} \cup {<<[address |-> [host |-> "ip1", len |-> 24],
                            tenant |-> tenant, assigned |-> assigned]>> :
                            tenant \in {None, "ten1"}, assigned \in 0..2}
  /\ devices \in {<<AddrDevice(p[1]), AddrDevice(p[2])>> :
                    p \in {q \in (0..Len(ips)) \X (0..Len(ips)) :
                             q[1] = 0 \/ q[2] = 0}}
  /\ pc = "idle"
  /\ mgr = NoMgr
  /\ jobs = 0
  /\ edits = 0
  /\ ctrl = NoCtrl
  /\ pager = NoPager
  /\ splitter = NoSplitter
  /\ merger = NoMerger
  /\ remap = NoRemap
  /\ bays = NoBays
  /\ subs = NoSubs
  /\ addr \in {[management |-> management,
                iface_data |-> [RawIf(Gi(1, 0, 1), ip) EXCEPT !.ipv4Mask = mask],
                interface |-> 1, log |-> {}, done |-> FALSE] :
                 management \in AddrHosts \cup {None},
                 ip \in AddrHosts \cup {None},
                 mask \in {<<>>, M24}}

AddrNext == AssignAddress

AddrSpec == AddrInit /\ [][AddrNext]_vars

\* C25: whenever the import (a turn of its loop, or a call of
\* process_ip_addresses) sets the primary IPv4 of a device, the address is
\* assigned to an interface of that device; an address that was assigned to
\* another object is not reassigned; a primary IPv4 that was set is not
\* replaced.
C25_PrimaryIsOnOwnInterface ==
  [][(\/ pc = "import" /\ mgr.todo # <<>> /\ mgr'.todo = Tail(mgr.todo)
      \/ ~addr.done /\ addr'.done)
       => /\ \A d \in Ids(devices') :
               LET before == IF d \in Ids(devices) THEN devices[d].primary_ip4 ELSE 0
               IN /\ before # 0 => devices'[d].primary_ip4 = before
                  /\ (before = 0 /\ devices'[d].primary_ip4 # 0)
                       => /\ ips'[devices'[d].primary_ip4].assigned # 0
                          /\ ifaces'[ips'[devices'[d].primary_ip4].assigned].device = d
          /\ \A k \in Ids(ips) :
               (ips[k].assigned # 0 /\ ifaces'[ips[k].assigned].device # 0)
                  => ips'[k].assigned = ips[k].assigned]_vars

\* C26: in a fetch pass, a turn of the loop that persists the prototype of a
\* unit stores interface data that come from the controller's answer for that
\* unit in this pass only: the prototype is the one made from the unit's own
\* answer, or from no interface when the query failed, whatever query failed.
C26_UnitDataIsItsOwn ==
  [][(/\ pc = "sync"
      /\ mgr.units # <<>>
      /\ pc' = "sync"
      /\ mgr'.units = Tail(mgr.units))
       => \E list \in {<<>>, TurnQueries(Head(mgr.units).unit, UnitRaw(mgr), NoFault,
                                         NoLocals).interfaces} :
            protos' = process_prototype(
                        [protos |-> protos, devices |-> devices, ips |-> ips],
                        mgr.controller,
                        LoadFrom(Head(mgr.units).unit, list)).protos]_vars

\* the units split_device_list emits in the pass under way
EmittedUnits ==
  LET units == split_device_list(mgr.report, mgr.uuid_list)
  IN {units[k] : k \in DOMAIN units}

\* C27: when the loop of a fetch pass is over, every unit the splitter
\* emitted, the units of a device without serial numbers included, has its
\* own prototype record, of its instance_uuid and its rank.
C27_EveryUnitHasItsRecord ==
  (pc = "sync" /\ mgr.units = <<>>)
    => \A u \in EmittedUnits :
         \E k \in Ids(protos) :
            /\ protos[k].instance_uuid = u.id
            /\ protos[k].stack_index = <<u.rank>>

\* C28: a fetch run for a controller leaves the prototypes of the other
\* controllers alone: no step of the run validates or imports one of them,
\* and none of them changes.
C28_FetchRunKeepsToItsController ==
  [][(pc # "idle" /\ mgr.kind = "fetch")
       => \A k \in Ids(protos) :
            protos[k].sdn_controller # mgr.controller
              => /\ k \notin mgr'.processed \ mgr.processed
                 /\ protos'[k] = protos[k]]_vars

\* the prototypes of the stack of pid that are not Deleted
LiveStack(pid) == {k \in SameStack(Db, pid) : protos[k].sync_status # DELETED}

\* C29: the verdict of the validation of a live prototype is the verdict on
\* the live prototypes of its stack, and the interface clean-up deletes
\* interfaces of the matching devices of these only: a Deleted sibling has no
\* part in either.
C29_DeletedSiblingsDoNotCount ==
  \A pid \in Ids(protos) :
     protos[pid].sync_status # DELETED
       => /\ \A after_modules \in BOOLEAN :
               validate_prototype(Db, pid, after_modules)
                 <=> \A k \in LiveStack(pid) :
                        StackMemberIsOk(Db, protos[k], after_modules)
          /\ \A i \in Ids(ifaces) :
               clean_prototype_interfaces(Db, pid).ifaces[i] # ifaces[i]
                 => \E k \in LiveStack(pid) :
                       protos[k].matching_netbox_device = ifaces[i].device

(***************************************************************************)
(* The bookkeeping of one controller.  The views create jobs and write the *)
(* row while a worker runs a job: the job reads the row when its manager   *)
(* is built (sdn_manager.py lines 87-89) and saves its copy at its end     *)
(* (tasks.py lines 156, 203, 245); Model.save() writes every field.        *)
(***************************************************************************)
MaxCreated == 3
MaxControllerEdits == 2

\* tasks.fetch (lines 17-46), called by views.launch_task
RequestFetch ==
  /\ ctrl.created < MaxCreated
  /\ ctrl' = [ctrl EXCEPT !.created = @ + 1,
                          !.row.last_fetch_job = ctrl.created + 1,
                          !.queue = Append(@, [job |-> ctrl.created + 1,
                                               kind |-> "fetch"])]
  /\ UNCHANGED <<protos, devices, ifaces, ips, pc, mgr, jobs, edits, pager, splitter,
                 merger, remap, bays, subs, addr>>

\* tasks.create_in_netbox (lines 48-82)
RequestImport ==
  /\ ctrl.created < MaxCreated
  /\ ctrl' = [ctrl EXCEPT !.created = @ + 1,
                          !.row.last_sync_job = ctrl.created + 1,
                          !.queue = Append(@, [job |-> ctrl.created + 1,
                                               kind |-> "import"])]
  /\ UNCHANGED <<protos, devices, ifaces, ips, pc, mgr, jobs, edits, pager, splitter,
                 merger, remap, bays, subs, addr>>

\* the operator saves the edit form of the controller (views.SdnControllerEditView)
EditController ==
  /\ ctrl.row.edited < MaxControllerEdits
  /\ ctrl' = [ctrl EXCEPT !.row.edited = @ + 1]
  /\ UNCHANGED <<protos, devices, ifaces, ips, pc, mgr, jobs, edits, pager, splitter,
                 merger, remap, bays, subs, addr>>

\* run_task: the worker takes the next job, whose script builds its manager
JobStart ==
  /\ ctrl.worker.kind = "idle"
  /\ ctrl.queue # <<>>
  /\ ctrl' = [ctrl EXCEPT !.queue = Tail(@),
                          !.worker = [kind |-> Head(ctrl.queue).kind,
                                      sdn_controller |-> ctrl.row]]
  /\ UNCHANGED <<protos, devices, ifaces, ips, pc, mgr, jobs, edits, pager, splitter,
                 merger, remap, bays, subs, addr>>

\* the end of the script's run: sdn_manager.sdn_controller.save(), after
\* last_sync_job_success is set by the two import scripts
JobSave(success) ==
  /\ ctrl.worker.kind # "idle"
  /\ ctrl' = [ctrl EXCEPT
                !.row = IF ctrl.worker.kind = "import"
                        THEN [ctrl.worker.sdn_controller
                                EXCEPT !.last_sync_job_success = success]
                        ELSE ctrl.worker.sdn_controller,
                !.worker = NoCtrl.worker]
  /\ UNCHANGED <<protos, devices, ifaces, ips, pc, mgr, jobs, edits, pager, splitter,
                 merger, remap, bays, subs, addr>>

CtrlInit ==
  /\ protos = <<>>
  /\ devices = <<>>
  /\ ifaces = <<>>
  /\ ips = <<>>
  /\ pc = "idle"
  /\ mgr = NoMgr
  /\ jobs = 0
  /\ edits = 0
  /\ pager = NoPager
  /\ splitter = NoSplitter
  /\ merger = NoMerger
  /\ remap = NoRemap
  /\ bays = NoBays
  /\ subs = NoSubs
  /\ addr = NoCall
  /\ ctrl = NoCtrl

CtrlNext ==
  \/ RequestFetch
  \/ RequestImport
  \/ EditController
  \/ JobStart
  \/ \E success \in {"true", "false"} : JobSave(success)

CtrlSpec == CtrlInit /\ [][CtrlNext]_vars

\* C30: when a running job saves the controller at its end, last_fetch_job
\* still refers to the fetch job requested last and the edits the operator
\* made to the controller are still there.
C30_JobSaveKeepsBookkeeping ==
  [][(ctrl.worker.kind # "idle" /\ ctrl'.worker.kind = "idle")
       => /\ ctrl'.row.last_fetch_job = ctrl.row.last_fetch_job
          /\ ctrl'.row.edited = ctrl.row.edited]_vars

====
